---- MODULE Spec2Model ----
(***************************************************************************)
(* State-machine model of the hybrid retrieval and ranking engine of       *)
(* universal-search-ts: the scoring utilities (searchUtils.ts), the two    *)
(* optional AI steps (SearchOptimizer.ts, Reranker.ts), the document and   *)
(* URL search services and the search controller.                          *)
(*                                                                         *)
(* Numbers.  A finite JavaScript number is modelled as an exact rational   *)
(* <<n, d>> with d > 0 in lowest terms.  A JavaScript value is a record    *)
(* [ty, n, s]: ty is the dynamic type, n the number (ty = "number") and s  *)
(* the string as a sequence of one-character strings (ty = "string").      *)
(***************************************************************************)
EXTENDS Integers, Sequences, FiniteSets, TLC

----------------------------------------------------------------------------
(* Rational arithmetic *)

Abs(i) == IF i < 0 THEN -i ELSE i

RECURSIVE GCD(_, _)
GCD(a, b) == IF b = 0 THEN a ELSE GCD(b, a % b)

\* <<n, d>> in lowest terms with a positive denominator.
Norm(n, d) ==
    LET g == GCD(Abs(n), Abs(d))
        s == IF d < 0 THEN -1 ELSE 1
    IN  <<(s * n) \div g, (s * d) \div g>>

Q(n, d) == Norm(n, d)
Zero == <<0, 1>>
One == <<1, 1>>
Half == <<1, 2>>

RAdd(a, b) == Norm(a[1] * b[2] + b[1] * a[2], a[2] * b[2])
RSub(a, b) == Norm(a[1] * b[2] - b[1] * a[2], a[2] * b[2])
RMul(a, b) == Norm(a[1] * b[1], a[2] * b[2])
\* b # 0
RDiv(a, b) == Norm(a[1] * b[2], a[2] * b[1])
RLt(a, b) == a[1] * b[2] < b[1] * a[2]
RLe(a, b) == a[1] * b[2] <= b[1] * a[2]
RMin(a, b) == IF RLt(b, a) THEN b ELSE a
RMax(a, b) == IF RLt(a, b) THEN b ELSE a
\* Math.floor
RFloor(a) == a[1] \div a[2]

----------------------------------------------------------------------------
(* JavaScript values *)

Undefined == [ty |-> "undefined", n |-> Zero, s |-> <<>>]
Null == [ty |-> "null", n |-> Zero, s |-> <<>>]
NaN == [ty |-> "nan", n |-> Zero, s |-> <<>>]
JsTrue == [ty |-> "true", n |-> Zero, s |-> <<>>]
JsObject == [ty |-> "object", n |-> Zero, s |-> <<>>]
\* The value of an expression whose evaluation threw.
Thrown == [ty |-> "thrown", n |-> Zero, s |-> <<>>]
Num(r) == [ty |-> "number", n |-> r, s |-> <<>>]
Str(cs) == [ty |-> "string", n |-> Zero, s |-> cs]

IsNum(v) == v.ty = "number"
IsNumeric(v) == v.ty \in {"number", "nan"}

\* ToBoolean: undefined, null, NaN, 0 and "" are falsy.
Truthy(v) ==
    CASE v.ty \in {"undefined", "null", "nan"} -> FALSE
      [] v.ty = "number" -> v.n # Zero
      [] v.ty = "string" -> v.s # <<>>
      [] OTHER -> TRUE

\* a || b
JsOr(a, b) == IF Truthy(a) THEN a ELSE b

\* Arithmetic on numeric values (number or NaN): NaN is contagious.
JsAdd(a, b) == IF IsNum(a) /\ IsNum(b) THEN Num(RAdd(a.n, b.n)) ELSE NaN
JsSub(a, b) == IF IsNum(a) /\ IsNum(b) THEN Num(RSub(a.n, b.n)) ELSE NaN
JsMul(a, b) == IF IsNum(a) /\ IsNum(b) THEN Num(RMul(a.n, b.n)) ELSE NaN
\* 0/0 is NaN; x/0 for x # 0 is +-Infinity, which no path of the model reaches.
JsDiv(a, b) ==
    IF IsNum(a) /\ IsNum(b) /\ b.n # Zero THEN Num(RDiv(a.n, b.n)) ELSE NaN
JsMin(a, b) == IF IsNum(a) /\ IsNum(b) THEN Num(RMin(a.n, b.n)) ELSE NaN
JsMax(a, b) == IF IsNum(a) /\ IsNum(b) THEN Num(RMax(a.n, b.n)) ELSE NaN

----------------------------------------------------------------------------
(* Strings: sequences of one-character strings *)

Lower(c) == CASE c = "A" -> "a" [] c = "B" -> "b" [] OTHER -> c
ToLowerCase(cs) == [i \in 1..Len(cs) |-> Lower(cs[i])]

\* String.prototype.includes
Includes(text, q) ==
    \E i \in 0..(Len(text) - Len(q)) : SubSeq(text, i + 1, i + Len(q)) = q

\* s.split(/\s+/).filter(Boolean): the maximal runs of non-blank characters.
RECURSIVE SplitFrom(_, _, _)
SplitFrom(cs, i, cur) ==
    IF i > Len(cs) THEN (IF cur = <<>> THEN <<>> ELSE <<cur>>)
    ELSE IF cs[i] = " "
         THEN (IF cur = <<>> THEN <<>> ELSE <<cur>>) \o SplitFrom(cs, i + 1, <<>>)
         ELSE SplitFrom(cs, i + 1, Append(cur, cs[i]))
SplitWords(cs) == SplitFrom(cs, 1, <<>>)

Range(f) == {f[i] : i \in DOMAIN f}

\* The elements of new Set(ws) in iteration (first insertion) order.
RECURSIVE Unique(_)
Unique(ws) ==
    IF ws = <<>> THEN <<>>
    ELSE LET init == Unique(SubSeq(ws, 1, Len(ws) - 1))
             last == ws[Len(ws)]
         IN  IF last \in Range(init) THEN init ELSE Append(init, last)

\* Array.prototype.indexOf, 0-based; the word is known to occur.
IndexOf(ws, w) == (CHOOSE i \in 1..Len(ws) : ws[i] = w /\ \A j \in 1..(i - 1) : ws[j] # w) - 1

SelectWords(ws, S) == SelectSeq(ws, LAMBDA w : w \in S)

\* positions.sort((a, b) => a - b) of distinct-or-equal integers.
RECURSIVE SortAsc(_)
SortAsc(ps) ==
    IF ps = <<>> THEN <<>>
    ELSE LET m == CHOOSE i \in 1..Len(ps) : \A j \in 1..Len(ps) : ps[i] <= ps[j]
         IN  <<ps[m]>> \o SortAsc([k \in 1..(Len(ps) - 1) |-> IF k < m THEN ps[k] ELSE ps[k + 1]])

RECURSIVE SumInts(_)
SumInts(xs) == IF xs = <<>> THEN 0 ELSE xs[1] + SumInts(Tail(xs))

----------------------------------------------------------------------------
(* searchUtils.ts: calculateFuzzyScore *)

FuzzyCap == Q(7, 10)
SubstringBase == Q(8, 10)
SubstringSpan == Q(2, 10)

\* The proximity boost of lines 48-76, from the matched words in query order.
ProximityBoost(text, matchingWords) ==
    IF Len(matchingWords) > 1
    THEN LET textWordList == SplitWords(text)
             positions == SortAsc([i \in 1..Len(matchingWords) |->
                                      IndexOf(textWordList, matchingWords[i])])
             gaps == [i \in 1..(Len(positions) - 1) |-> positions[i + 1] - positions[i]]
             avgGap == Q(SumInts(gaps), Len(gaps))
         IN  RMax(Zero, RMul(Q(2, 10), RSub(One, RMin(RDiv(avgGap, Q(10, 1)), One))))
    ELSE Zero

\* Mutant of FuzzyOnStrings: the word-match branch is returned without the cap
\* of line 79.
FuzzyOnStringsUncapped(text0, query0) ==
    IF ToLowerCase(query0) = ToLowerCase(text0) THEN One
    ELSE IF Includes(ToLowerCase(text0), ToLowerCase(query0))
    THEN RMin(One, RAdd(SubstringBase, RMul(Q(Len(query0), Len(text0)), SubstringSpan)))
    ELSE IF Len(Unique(SplitWords(ToLowerCase(query0)))) = 0 THEN Zero
    ELSE RAdd(Q(Len(SelectWords(Unique(SplitWords(ToLowerCase(query0))),
                                Range(SplitWords(ToLowerCase(text0))))),
                Len(Unique(SplitWords(ToLowerCase(query0))))),
              ProximityBoost(ToLowerCase(text0),
                             SelectWords(Unique(SplitWords(ToLowerCase(query0))),
                                         Range(SplitWords(ToLowerCase(text0))))))

\* Mutant of FuzzyOnStrings: a contained query scores from 0.6 up, not from 0.8.
FuzzyOnStringsLowBase(text0, query0) ==
    IF ToLowerCase(query0) = ToLowerCase(text0) THEN One
    ELSE IF Includes(ToLowerCase(text0), ToLowerCase(query0))
    THEN RMin(One, RAdd(Q(6, 10), RMul(Q(Len(query0), Len(text0)), SubstringSpan)))
    ELSE IF Len(Unique(SplitWords(ToLowerCase(query0)))) = 0 THEN Zero
    ELSE RMin(FuzzyCap,
              RAdd(Q(Len(SelectWords(Unique(SplitWords(ToLowerCase(query0))),
                                     Range(SplitWords(ToLowerCase(text0))))),
                     Len(Unique(SplitWords(ToLowerCase(query0))))),
                   ProximityBoost(ToLowerCase(text0),
                                  SelectWords(Unique(SplitWords(ToLowerCase(query0))),
                                              Range(SplitWords(ToLowerCase(text0)))))))

\* Lines 12-79, on two strings.
FuzzyOnStrings(text0, query0) ==
    LET text == ToLowerCase(text0)
        query == ToLowerCase(query0)
    IN  IF query = text THEN One
        ELSE IF Includes(text, query)
        THEN RMin(One, RAdd(SubstringBase, RMul(Q(Len(query), Len(text)), SubstringSpan)))
        ELSE LET textWords == Range(SplitWords(text))
                 queryWords == Unique(SplitWords(query))
             IN  IF Len(queryWords) = 0 THEN Zero
                 ELSE LET matchingWords == SelectWords(queryWords, textWords)
                          wordScore == Q(Len(matchingWords), Len(queryWords))
                          boost == ProximityBoost(text, matchingWords)
                      IN  RMin(FuzzyCap, RAdd(wordScore, boost))

\* calculateFuzzyScore(text, query) on JavaScript values: a falsy argument gives
\* 0; a truthy argument that is not a string has no toLowerCase method, and the
\* call throws a TypeError.
CalculateFuzzyScore(text, query) ==
    IF ~Truthy(text) \/ ~Truthy(query) THEN Num(Zero)
    ELSE IF text.ty # "string" \/ query.ty # "string" THEN Thrown
    ELSE Num(FuzzyOnStrings(text.s, query.s))

----------------------------------------------------------------------------
(* searchUtils.ts: calculateRecencyScore *)

\* Number(v), the conversion the arithmetic operators apply to an operand.
ToNumber(v) ==
    CASE v.ty = "number" -> v
      [] v.ty = "null" -> Num(Zero)
      [] v.ty = "true" -> Num(One)
      [] v.ty = "string" /\ v.s = <<>> -> Num(Zero)
      [] OTHER -> NaN

\* Instants are counted in ticks; a day has TicksPerDay of them (the model's
\* resolution of the 1000 * 60 * 60 * 24 milliseconds of line 99).
TicksPerDay == 2
maxAge == 365

\* A Date is [ty |-> "date", n |-> <<ticks, 1>>]; Invalid Date has ty "invaliddate".
DateAt(t) == [ty |-> "date", n |-> Q(t, 1), s |-> <<>>]
InvalidDate == [ty |-> "invaliddate", n |-> Zero, s |-> <<>>]

\* Date strings are written as the decimal tick count of their instant; any
\* other string is no date.
Digits == {"0", "1", "2", "3", "4", "5", "6", "7", "8", "9"}

DigitValue(c) ==
    CASE c = "0" -> 0 [] c = "1" -> 1 [] c = "2" -> 2 [] c = "3" -> 3 [] c = "4" -> 4
      [] c = "5" -> 5 [] c = "6" -> 6 [] c = "7" -> 7 [] c = "8" -> 8 [] c = "9" -> 9

RECURSIVE DecimalValue(_)
DecimalValue(cs) ==
    IF cs = <<>> THEN 0
    ELSE 10 * DecimalValue(SubSeq(cs, 1, Len(cs) - 1)) + DigitValue(cs[Len(cs)])

IsDateString(cs) == cs # <<>> /\ \A i \in 1..Len(cs) : cs[i] \in Digits

\* new Date(v): a Date is copied, a number is an instant, a string is parsed.
NewDate(v) ==
    CASE v.ty = "date" -> v
      [] v.ty = "number" -> DateAt(RFloor(v.n))
      [] v.ty = "string" /\ IsDateString(v.s) -> DateAt(DecimalValue(v.s))
      [] v.ty = "null" -> DateAt(0)
      [] v.ty = "true" -> DateAt(1)
      [] OTHER -> InvalidDate

GetTime(d) == IF d.ty = "date" THEN Num(d.n) ELSE NaN

\* Math.floor
JsFloor(v) == IF IsNum(v) THEN Num(Q(RFloor(v.n), 1)) ELSE NaN

\* Math.exp at the multiples of 1/2 in [-5, 5], to two decimals (and never 0);
\* an argument between two grid points takes the value at the grid point below,
\* one outside the grid the value at its nearest end.
ExpAtHalves(h) ==
    CASE h = -10 -> Q(1, 100)
      [] h = -9 -> Q(1, 100)
      [] h = -8 -> Q(2, 100)
      [] h = -7 -> Q(3, 100)
      [] h = -6 -> Q(5, 100)
      [] h = -5 -> Q(8, 100)
      [] h = -4 -> Q(14, 100)
      [] h = -3 -> Q(22, 100)
      [] h = -2 -> Q(37, 100)
      [] h = -1 -> Q(61, 100)
      [] h = 0 -> Q(100, 100)
      [] h = 1 -> Q(165, 100)
      [] h = 2 -> Q(272, 100)
      [] h = 3 -> Q(448, 100)
      [] h = 4 -> Q(739, 100)
      [] h = 5 -> Q(1218, 100)
      [] h = 6 -> Q(2009, 100)
      [] h = 7 -> Q(3312, 100)
      [] h = 8 -> Q(5460, 100)
      [] h = 9 -> Q(9002, 100)
      [] h = 10 -> Q(14841, 100)

ExpOf(x) ==
    LET h0 == RFloor(RMul(x, Q(2, 1)))
        h == IF h0 < -10 THEN -10 ELSE IF h0 > 10 THEN 10 ELSE h0
    IN  ExpAtHalves(h)

JsExp(v) == IF IsNum(v) THEN Num(ExpOf(v.n)) ELSE NaN

\* calculateRecencyScore(publishedDate, recencyBias) evaluated at instant now.
\* No statement of the try block throws, so the catch of line 118 is dead.
CalculateRecencyScore(publishedDate, recencyBias, now) ==
    IF ~Truthy(publishedDate) THEN Num(Half)
    ELSE LET pubDate == NewDate(publishedDate)
             daysSincePub ==
                 JsFloor(JsDiv(JsSub(Num(Q(now, 1)), GetTime(pubDate)),
                               Num(Q(TicksPerDay, 1))))
         IN  IF recencyBias = Num(Zero) THEN Num(One)
             ELSE LET normalizedAge ==
                          JsMin(JsDiv(daysSincePub, Num(Q(maxAge, 1))), Num(One))
                      k == JsMul(Num(Q(5, 1)), ToNumber(recencyBias))
                  IN  JsExp(JsMul(JsSub(Num(Zero), k), normalizedAge))

----------------------------------------------------------------------------
(* searchUtils.ts: calculateWeightedScore *)

\* The five (score, weight) pairs the function reads, in the order it reads them.
FusedSignals ==
    << <<"titleVectorScore", "titleWeight">>,
       <<"avgChunkScore", "chunkWeight">>,
       <<"fuzzyScore", "fuzzyWeight">>,
       <<"recencyScore", "recencyWeight">>,
       <<"urlVectorScore", "urlWeight">> >>

ScoreNames == {"titleVectorScore", "avgChunkScore", "fuzzyScore", "recencyScore",
               "urlVectorScore", "rerankScore"}
WeightNames == {"titleWeight", "chunkWeight", "fuzzyWeight", "recencyWeight",
                "urlWeight", "rerankWeight"}

\* Mutant of Accumulate: a weight counts in the total as soon as it is defined,
\* whether or not its score is.
RECURSIVE AccumulateLoose(_, _, _, _)
AccumulateLoose(signals, scores, weights, i) ==
    IF i = 0 THEN <<Num(Zero), Num(Zero)>>
    ELSE LET acc == AccumulateLoose(signals, scores, weights, i - 1)
             sc == scores[signals[i][1]]
             w == weights[signals[i][2]]
         IN  IF w = Undefined THEN acc
             ELSE IF sc = Undefined THEN <<acc[1], JsAdd(acc[2], w)>>
             ELSE <<JsAdd(acc[1], JsMul(sc, w)), JsAdd(acc[2], w)>>

\* The accumulation of lines 148-179 over the first i pairs: <<totalScore, totalWeight>>.
RECURSIVE Accumulate(_, _, _, _)
Accumulate(signals, scores, weights, i) ==
    IF i = 0 THEN <<Num(Zero), Num(Zero)>>
    ELSE LET acc == Accumulate(signals, scores, weights, i - 1)
             sc == scores[signals[i][1]]
             w == weights[signals[i][2]]
         IN  IF sc # Undefined /\ w # Undefined
             THEN <<JsAdd(acc[1], JsMul(sc, w)), JsAdd(acc[2], w)>>
             ELSE acc

\* Mutant of CalculateWeightedScore: the division is made without the guard of
\* lines 182-184.
CalculateWeightedScoreUnguarded(scores, weights) ==
    JsDiv(Accumulate(FusedSignals, scores, weights, Len(FusedSignals))[1],
          Accumulate(FusedSignals, scores, weights, Len(FusedSignals))[2])

\* calculateWeightedScore(scores, weights): scores and weights are functions from
\* ScoreNames and WeightNames to numbers or Undefined (an absent property).
CalculateWeightedScore(scores, weights) ==
    LET acc == Accumulate(FusedSignals, scores, weights, Len(FusedSignals))
        totalScore == acc[1]
        totalWeight == acc[2]
    IN  IF totalWeight = Num(Zero) THEN Num(Zero) ELSE JsDiv(totalScore, totalWeight)

----------------------------------------------------------------------------
(* searchUtils.ts: cleanAndParseJson *)

(* A completion text is a sequence of tokens [t, k, v]:                      *)
(*   fence    a code-fence marker, ``` or ```json                            *)
(*   lbrace, rbrace, comma                                                   *)
(*   member   "k": v, one member of an object, v a JavaScript value          *)
(*   literal  a JSON literal that is no object (null, a number)              *)
(*   text     prose that is no JSON                                          *)
(* White space between tokens is not modelled (trim, \s* match it away).     *)
Tok(kind) == [t |-> kind, k |-> "", v |-> Undefined]
Member(key, val) == [t |-> "member", k |-> key, v |-> val]
Literal(val) == [t |-> "literal", k |-> "", v |-> val]

\* Step 1: replace(/```(?:json)?\s*|\s*```/g, '').
RemoveFences(toks) == SelectSeq(toks, LAMBDA x : x.t # "fence")

\* Step 2: /({[\s\S]*})/ is greedy: from the first "{" to the last "}" after it.
ExtractObject(toks) ==
    LET opens == {i \in 1..Len(toks) : toks[i].t = "lbrace"}
        closes == {i \in 1..Len(toks) : toks[i].t = "rbrace"}
    IN  IF opens = {} \/ closes = {} THEN toks
        ELSE LET first == CHOOSE i \in opens : \A j \in opens : i <= j
                 last == CHOOSE i \in closes : \A j \in closes : j <= i
             IN  IF first < last THEN SubSeq(toks, first, last) ELSE toks

\* JSON.parse: [ok, isObject, members, value]. An object is "{" then members
\* separated by single commas then "}"; a lone literal parses to its value.
ParseFailure == [ok |-> FALSE, isObject |-> FALSE, members |-> <<>>, value |-> Undefined]
JsonParse(toks) ==
    IF Len(toks) = 1 /\ toks[1].t = "literal"
    THEN [ok |-> TRUE, isObject |-> FALSE, members |-> <<>>, value |-> toks[1].v]
    ELSE IF Len(toks) >= 2 /\ toks[1].t = "lbrace" /\ toks[Len(toks)].t = "rbrace"
    THEN LET inner == SubSeq(toks, 2, Len(toks) - 1)
             wellFormed ==
                 \/ inner = <<>>
                 \/ /\ Len(inner) % 2 = 1
                    /\ \A i \in 1..Len(inner) :
                          inner[i].t = (IF i % 2 = 1 THEN "member" ELSE "comma")
         IN  IF wellFormed
             THEN [ok |-> TRUE, isObject |-> TRUE,
                   members |-> SelectSeq(inner, LAMBDA x : x.t = "member"),
                   value |-> JsObject]
             ELSE ParseFailure
    ELSE ParseFailure

\* replace(/,\s*}/g, '}'): the comma right before a "}" goes (the model has no "]").
RemoveTrailingCommas(toks) ==
    LET keep == {i \in 1..Len(toks) :
                    ~(toks[i].t = "comma" /\ i < Len(toks) /\ toks[i + 1].t = "rbrace")}
        Pick(n) == CHOOSE i \in keep : Cardinality({j \in keep : j < i}) = n - 1
    IN  [n \in 1..Cardinality(keep) |-> toks[Pick(n)]]

\* cleanAndParseJson(jsonString); ok = FALSE stands for the rethrown SyntaxError.
CleanAndParseJson(jsonString) ==
    LET cleanedString == ExtractObject(RemoveFences(jsonString))
        firstTry == JsonParse(cleanedString)
    IN  IF firstTry.ok THEN firstTry
        ELSE JsonParse(RemoveTrailingCommas(cleanedString))

\* obj[key] on a parsed object: the last member of that name, or undefined.
GetMember(members, key) ==
    LET at == {i \in 1..Len(members) : members[i].k = key}
    IN  IF at = {} THEN Undefined
        ELSE members[CHOOSE i \in at : \A j \in at : j <= i].v

----------------------------------------------------------------------------
(* The completion provider, as both AI steps see it *)

\* client.chat.completions.create(...) either rejects or resolves with a message
\* content (a token sequence; <<>> is the empty or null content).
ProviderError == [failed |-> TRUE, content |-> <<>>]
Completion(toks) == [failed |-> FALSE, content |-> toks]

----------------------------------------------------------------------------
(* SearchOptimizer.ts: optimizeQuery *)

OptimizerFallback(searchQuery) ==
    [threw |-> FALSE, exactSearch |-> searchQuery, vectorSearch |-> searchQuery,
     recencyBias |-> Num(Half)]
OptimizerThrow ==
    [threw |-> TRUE, exactSearch |-> Undefined, vectorSearch |-> Undefined,
     recencyBias |-> Undefined]

\* Mutant of OptimizeTry: the validation of line 55 does not look at recency_bias.
OptimizeTryLax(searchQuery, completion) ==
    IF completion.failed \/ completion.content = <<>> THEN OptimizerThrow
    ELSE LET optimizedParams == CleanAndParseJson(completion.content)
         IN  IF ~optimizedParams.ok THEN OptimizerThrow
             ELSE IF ~optimizedParams.isObject /\ optimizedParams.value = Null
             THEN OptimizerThrow
             ELSE IF ~Truthy(GetMember(optimizedParams.members, "exact_search"))
                     \/ ~Truthy(GetMember(optimizedParams.members, "vector_search"))
             THEN OptimizerThrow
             ELSE [threw |-> FALSE,
                   exactSearch |-> GetMember(optimizedParams.members, "exact_search"),
                   vectorSearch |-> GetMember(optimizedParams.members, "vector_search"),
                   recencyBias |-> GetMember(optimizedParams.members, "recency_bias")]

\* The try block of lines 34-63.
OptimizeTry(searchQuery, completion) ==
    IF completion.failed THEN OptimizerThrow
    ELSE IF completion.content = <<>> THEN OptimizerThrow
    ELSE LET optimizedParams == CleanAndParseJson(completion.content)
         IN  IF ~optimizedParams.ok THEN OptimizerThrow
             \* a property read on null is a TypeError
             ELSE IF ~optimizedParams.isObject /\ optimizedParams.value = Null
             THEN OptimizerThrow
             ELSE LET exact_search == GetMember(optimizedParams.members, "exact_search")
                      vector_search == GetMember(optimizedParams.members, "vector_search")
                      recency_bias == GetMember(optimizedParams.members, "recency_bias")
                  IN  IF ~Truthy(exact_search) \/ ~Truthy(vector_search)
                         \/ recency_bias = Undefined
                      THEN OptimizerThrow
                      ELSE [threw |-> FALSE, exactSearch |-> exact_search,
                            vectorSearch |-> vector_search, recencyBias |-> recency_bias]

\* optimizeQuery(searchQuery): the catch of lines 64-73 returns the fallback.
OptimizeQuery(searchQuery, completion) ==
    LET try == OptimizeTry(searchQuery, completion)
    IN  IF try.threw THEN OptimizerFallback(searchQuery) ELSE try

----------------------------------------------------------------------------
(* Reranker.ts: rerankResults *)

RerankDefault == Half

\* A Map<string, number> is a function from its keys to numbers.
EmptyMap == [x \in {} |-> Zero]
MapGet(m, key) == IF key \in DOMAIN m THEN Num(m[key]) ELSE Undefined

Clamp01(r) == RMin(RMax(r, Zero), One)

\* Lines 68-79: the entries whose Number(score) is not NaN, clamped to [0, 1];
\* a later member of the same name overwrites an earlier one.
ScoreMapOf(members) ==
    LET numeric == {i \in 1..Len(members) : IsNum(ToNumber(members[i].v))}
        keys == {members[i].k : i \in numeric}
        LastOf(key) == CHOOSE i \in numeric :
                          members[i].k = key
                          /\ \A j \in numeric : members[j].k = key => j <= i
    IN  [key \in keys |-> Clamp01(ToNumber(members[LastOf(key)].v).n)]

\* The try block of lines 36-81; documents is the sequence of candidates.
RerankTry(documents, completion) ==
    IF \E i \in 1..Len(documents) : documents[i].content.ty # "string"
    THEN [threw |-> TRUE, scores |-> EmptyMap]
    ELSE IF completion.failed \/ completion.content = <<>>
    THEN [threw |-> TRUE, scores |-> EmptyMap]
    ELSE LET rerankScores == CleanAndParseJson(completion.content)
         IN  IF ~rerankScores.ok THEN [threw |-> TRUE, scores |-> EmptyMap]
             ELSE IF rerankScores.isObject
             THEN [threw |-> FALSE, scores |-> ScoreMapOf(rerankScores.members)]
             ELSE [threw |-> FALSE, scores |-> EmptyMap]

\* Lines 82-92: every document id mapped to the default.
RerankFallback(documents) ==
    [id \in {documents[i].docId : i \in 1..Len(documents)} |-> RerankDefault]

\* Mutant of RerankResults: the catch block rethrows instead of returning defaults.
RerankResultsRethrows(documents, completion) ==
    LET try == RerankTry(documents, completion)
    IN  IF try.threw
        THEN [threw |-> TRUE, failed |-> TRUE, scores |-> EmptyMap]
        ELSE [threw |-> FALSE, failed |-> FALSE, scores |-> try.scores]

\* rerankResults(query, documents): [threw, failed, scores]; failed records that
\* the catch block ran.
RerankResults(documents, completion) ==
    LET try == RerankTry(documents, completion)
    IN  IF try.threw
        THEN [threw |-> FALSE, failed |-> TRUE, scores |-> RerankFallback(documents)]
        ELSE [threw |-> FALSE, failed |-> FALSE, scores |-> try.scores]

----------------------------------------------------------------------------
(* DocumentSearchService.ts / UrlSearchService.ts: candidates and scoring *)

(* One record type serves both variants.  For a URL candidate docId is the  *)
(* urlId, title the pageTitle and content the url; avgChunkScore,           *)
(* recencyScore and rerankScore are undefined and urlVectorScore is set.    *)
(* For a document candidate urlVectorScore is undefined.                    *)

\* parseInt of the stored publishedDate field: NaN when the field is missing.
ParseIntField(v) == IF IsNum(v) THEN Num(Q(RFloor(v.n), 1)) ELSE NaN

\* scores.reduce((a, b) => a + b, 0) / scores.length
RECURSIVE SumScores(_)
SumScores(xs) == IF xs = <<>> THEN Num(Zero) ELSE JsAdd(xs[1], SumScores(Tail(xs)))
Mean(xs) == JsDiv(SumScores(xs), Num(Q(Len(xs), 1)))

\* Lines 155-171 (document) and 85-91 (URL): the secondary hits folded per id.
\* Document: the mean of the chunk scores of each parent.  URL: the last score.
AvgChunkScores(chunksResults) ==
    [id \in {chunksResults[i].parent_id : i \in 1..Len(chunksResults)} |->
        Mean(SelectSeq([i \in 1..Len(chunksResults) |->
                           IF chunksResults[i].parent_id = id
                           THEN chunksResults[i].score ELSE Undefined],
                       LAMBDA x : x # Undefined))]
UrlScores(urlResults) ==
    [id \in {urlResults[i].parent_id : i \in 1..Len(urlResults)} |->
        urlResults[CHOOSE i \in 1..Len(urlResults) :
                      urlResults[i].parent_id = id
                      /\ \A j \in 1..Len(urlResults) :
                            urlResults[j].parent_id = id => j <= i].score]

\* Mutant of LookupOrZero: an id without entry stays undefined.
LookupOrAbsent(table, id) ==
    IF id \in DOMAIN table THEN table[id] ELSE Undefined

\* table[id] || 0
LookupOrZero(table, id) ==
    JsOr(IF id \in DOMAIN table THEN table[id] ELSE Undefined, Num(Zero))

\* Math.max(titleFuzzyScore, contentFuzzyScore); a TypeError thrown by either
\* call propagates.
FuzzyMax(x, y) == IF x = Thrown \/ y = Thrown THEN Thrown ELSE JsMax(x, y)

\* new Date(parseInt(doc.value.publishedDate))
PublishedDateOf(ms) == IF IsNum(ms) THEN DateAt(RFloor(ms.n)) ELSE InvalidDate

\* Lines 196-210: the candidate pushed to output.
MakeDocCandidate(hit, publishedDate, avgChunkScore, fuzzyScore, recencyScore) ==
    [threw |-> fuzzyScore = Thrown, docId |-> hit.doc_id, title |-> hit.title,
     content |-> hit.content, publishedDate |-> publishedDate,
     titleVectorScore |-> hit.title_vector_score, avgChunkScore |-> avgChunkScore,
     urlVectorScore |-> Undefined,
     fuzzyScore |-> IF fuzzyScore = Thrown THEN Undefined ELSE fuzzyScore,
     recencyScore |-> recencyScore, rerankScore |-> Undefined,
     overallScore |->
         IF fuzzyScore = Thrown THEN Undefined
         ELSE JsDiv(JsAdd(JsAdd(JsAdd(hit.title_vector_score, avgChunkScore),
                                JsMul(fuzzyScore, Num(Q(3, 2)))),
                          recencyScore),
                    Num(Q(4, 1))),
     weightedScore |-> Undefined]

\* Lines 175-211: one document hit turned into a candidate; threw records the
\* TypeError of a fuzzy score taken on a query that is no string.
DocCandidate(hit, avgChunkScores, exactQuery, recencyBias, now) ==
    MakeDocCandidate(
        hit,
        PublishedDateOf(ParseIntField(hit.publishedDate)),
        LookupOrZero(avgChunkScores, hit.doc_id),
        FuzzyMax(CalculateFuzzyScore(hit.title, exactQuery),
                 CalculateFuzzyScore(hit.content, exactQuery)),
        CalculateRecencyScore(PublishedDateOf(ParseIntField(hit.publishedDate)),
                              recencyBias, now))

\* The weights object as a function on WeightNames; an absent weight is undefined.
Weights(title, chunk, fuzzy, recency, url, rerank) ==
    [w \in WeightNames |->
        CASE w = "titleWeight" -> title [] w = "chunkWeight" -> chunk
          [] w = "fuzzyWeight" -> fuzzy [] w = "recencyWeight" -> recency
          [] w = "urlWeight" -> url [] OTHER -> rerank]

\* The scores object handed to calculateWeightedScore.
ScoresOf(doc) ==
    [sn \in ScoreNames |->
        CASE sn = "titleVectorScore" -> doc.titleVectorScore
          [] sn = "avgChunkScore" -> doc.avgChunkScore
          [] sn = "fuzzyScore" -> doc.fuzzyScore
          [] sn = "recencyScore" -> doc.recencyScore
          [] sn = "urlVectorScore" -> doc.urlVectorScore
          [] OTHER -> doc.rerankScore]

RerankWeight == Q(2, 1)

\* Lines 248-262: the per-candidate copy of the weights; a candidate that carries
\* a rerank score gets rerankWeight 2.0 whatever the caller gave.
WeightsCopy(doc, weights) ==
    IF doc.rerankScore # Undefined
    THEN [weights EXCEPT !["rerankWeight"] = Num(RerankWeight)]
    ELSE weights

\* Lines 231-266: doc.weightedScore for one candidate.
WithWeightedScore(doc, weights) ==
    [doc EXCEPT !.weightedScore = CalculateWeightedScore(ScoresOf(doc), WeightsCopy(doc, weights))]

\* Lines 109-131 of UrlSearchService.ts: the candidate pushed to output, before
\* its weighted score.
MakeUrlCandidate(hit, urlVectorScore, fuzzyScore) ==
    [threw |-> fuzzyScore = Thrown, docId |-> hit.doc_id, title |-> hit.title,
     content |-> hit.content, publishedDate |-> InvalidDate,
     titleVectorScore |-> hit.title_vector_score, avgChunkScore |-> Undefined,
     urlVectorScore |-> urlVectorScore,
     fuzzyScore |-> IF fuzzyScore = Thrown THEN Undefined ELSE fuzzyScore,
     recencyScore |-> Undefined, rerankScore |-> Undefined,
     overallScore |->
         IF fuzzyScore = Thrown THEN Undefined
         ELSE JsDiv(JsAdd(JsAdd(hit.title_vector_score, urlVectorScore),
                          JsMul(fuzzyScore, Num(Q(3, 2)))),
                    Num(Q(7, 2))),
     weightedScore |-> Undefined]

UrlWithWeightedScore(doc, weights) ==
    IF doc.threw THEN doc
    ELSE [doc EXCEPT !.weightedScore = CalculateWeightedScore(ScoresOf(doc), weights)]

\* Lines 95-132 of UrlSearchService.ts: one title hit turned into a candidate,
\* its weighted score included.
UrlCandidate(hit, urlScores, fuzzyValue, weights) ==
    UrlWithWeightedScore(
        MakeUrlCandidate(hit,
                         LookupOrZero(urlScores, hit.doc_id),
                         FuzzyMax(CalculateFuzzyScore(hit.content, fuzzyValue),
                                  CalculateFuzzyScore(hit.title, fuzzyValue))),
        weights)

\* Line 223: rerankScores.get(doc.docId) || 0.5
WithRerankScore(doc, rerankScores) ==
    [doc EXCEPT !.rerankScore = JsOr(MapGet(rerankScores, doc.docId), Num(RerankDefault))]

\* The key the comparator of line 269 (135 for URLs) reads off a candidate.
SortKey(doc) == JsOr(doc.weightedScore, doc.overallScore)

\* output.sort((a, b) => key(b) - key(a)) on numeric keys: Array.prototype.sort is
\* stable, so each element goes behind every earlier one whose key is not smaller.
RECURSIVE StableSortDesc(_)
StableSortDesc(docs) ==
    IF Len(docs) <= 1 THEN docs
    ELSE LET init == StableSortDesc(SubSeq(docs, 1, Len(docs) - 1))
             x == docs[Len(docs)]
             ahead == {i \in 1..Len(init) : RLe(SortKey(x).n, SortKey(init[i]).n)}
             at == IF ahead = {} THEN 0 ELSE CHOOSE i \in ahead : \A j \in ahead : j <= i
         IN  SubSeq(init, 1, at) \o <<x>> \o SubSeq(init, at + 1, Len(init))

OrdersOf(docs) ==
    {[i \in 1..Len(docs) |-> docs[p[i]]] :
        p \in {q \in [1..Len(docs) -> 1..Len(docs)] :
                  \A i, j \in 1..Len(docs) : i # j => q[i] # q[j]}}

\* Mutant of SortedOutputs: the list is returned in the order it was built.
SortedOutputsUnsorted(docs) == {docs}

\* The orders the sort may leave: the stable descending order when every key is
\* a number; with a NaN key the comparator is not consistent and the order is
\* implementation-defined (ECMAScript 23.1.3.30).
SortedOutputs(docs) ==
    IF \A i \in 1..Len(docs) : IsNum(SortKey(docs[i]))
    THEN {StableSortDesc(docs)}
    ELSE OrdersOf(docs)

----------------------------------------------------------------------------
(* State *)

VARIABLES
    \* one search request, from the controller's handler to its cleanup
    variant,        \* "doc" (searchDocuments) or "url" (searchUrls)
    body,           \* req.body: query, fuzzyValue, aiEnhanced, useLlmReranking, weights
    pc,             \* where the handler is
    now,            \* Date.now() during the request
    clientOpen,     \* the Redis client of the service is connected
    exactQuery, vectorQuery, recencyBias,   \* locals of search
    optimizerSaid,  \* what the completion provider did at the optimizer step
    docsResults, chunksResults,             \* what the two index queries returned
    inFlight,       \* the index queries sent and not yet answered
    candidates,     \* output as built by lines 175-211, before reranking
    rerankerSaid,   \* what the completion provider did at the reranker step
    rerankScores,   \* the map rerankResults returned
    output,         \* the array search sorts and returns
    searchOutcome,  \* "none", "returned" or "threw"
    response,       \* the HTTP response sent: status 0 while none is
    sent,           \* how many responses the handler has sent
    cleanupThrew,   \* cleanup() rejected
    calls,          \* the external calls made, in order
    failedCall,     \* the external call that rejected ("none" while none has)
    \* one call of calculateWeightedScore
    fuseScores, fuseWeights, fuseResult,
    \* one call of optimizeQuery
    optQuery, optCompletion, optResult,
    \* one call of rerankResults
    rrDocuments, rrCompletion, rrResult,
    \* several requests in flight in one process
    reqs,           \* per request: variant, hasQuery, pc, status, cleanupThrew
    clients,        \* per service singleton: its Redis client is open
    \* one call of calculateFuzzyScore
    fzText, fzQuery, fzResult,
    \* one call of calculateRecencyScore
    rcDate, rcBias, rcNow, rcResult,
    \* one batch of indexDocuments or indexUrls
    ixKind,         \* "doc" or "url"
    ixBatch,        \* the items find() returned
    ixAt,           \* the item and the step the loop is at
    ixCount,        \* indexedCount
    ixStore,        \* the keys written to the index
    ixFailed,       \* the items whose processing threw
    ixReturned,     \* the count returned, Pending while the batch runs
    \* two runs of search on the same inputs
    twInput, twNow, twRuns,
    \* the scoring and sorting of two candidates
    prDocs, prOut,
    \* one call of cleanAndParseJson
    pjText, pjResult,
    \* one IndexingScheduler
    scDocumentJob,  \* this.documentJob: a job id, or 0 for null
    scUrlJob,       \* this.urlJob: a job id, or 0 for null
    scActive,       \* the jobs node-schedule holds scheduled
    scIssued,       \* how many jobs scheduleJob has created
    scLast,         \* the method of the scheduler that returned last
    \* one call of chunkText
    ckWords,        \* words.length
    ckSize,         \* this.chunkSize
    ckOverlap,      \* this.overlap
    ckI,            \* the loop variable i
    ckChunks,       \* chunks.length
    ckPc            \* "loop" while the while loop runs, "done" after the return

vars == <<variant, body, pc, now, inFlight, clientOpen, exactQuery, vectorQuery, recencyBias,
          optimizerSaid, docsResults, chunksResults, candidates, rerankerSaid,
          rerankScores, output, searchOutcome, response, sent, cleanupThrew,
          calls, failedCall, fuseScores, fuseWeights, fuseResult, optQuery,
          optCompletion, optResult, rrDocuments, rrCompletion, rrResult, reqs, clients,
          fzText, fzQuery, fzResult, rcDate, rcBias, rcNow, rcResult, ixKind, ixBatch,
          ixAt, ixCount, ixStore, ixFailed, ixReturned, twInput, twNow, twRuns, prDocs,
          prOut, pjText, pjResult, scDocumentJob, scUrlJob, scActive, scIssued, scLast,
          ckWords, ckSize, ckOverlap, ckI, ckChunks, ckPc>>

\* The variables each specification other than its own leaves alone.
fuseVars == <<fuseScores, fuseWeights, fuseResult>>
optVars == <<optQuery, optCompletion, optResult>>
rrVars == <<rrDocuments, rrCompletion, rrResult>>
ctlVars == <<reqs, clients>>
fzVars == <<fzText, fzQuery, fzResult>>
rcVars == <<rcDate, rcBias, rcNow, rcResult>>
ixVars == <<ixKind, ixBatch, ixAt, ixCount, ixStore, ixFailed, ixReturned>>
twVars == <<twInput, twNow, twRuns>>
prVars == <<prDocs, prOut>>
pjVars == <<pjText, pjResult>>
scVars == <<scDocumentJob, scUrlJob, scActive, scIssued, scLast>>
ckVars == <<ckWords, ckSize, ckOverlap, ckI, ckChunks, ckPc>>
searchVars == <<variant, body, pc, now, inFlight, clientOpen, exactQuery, vectorQuery, recencyBias,
                optimizerSaid, docsResults, chunksResults, candidates, rerankerSaid,
                rerankScores, output, searchOutcome, response, sent, cleanupThrew,
                calls, failedCall>>

----------------------------------------------------------------------------
(* Inputs of one request *)

\* k of the request: the primary query returns at most MaxHits hits.
MaxHits == 2
\* The chunk index holds at most MaxChunkHits chunks near the query (of the k * 3 asked for).
MaxChunkHits == 2

NowTick == 400 * TicksPerDay

S_ab == <<"a", " ", "b">>
S_ba == <<"b", " ", "a">>

\* The indexed documents: d1 and d2 agree in every field but the id.
Corpus ==
    { [doc_id |-> "d1", title |-> Str(S_ab), content |-> Str(S_ba),
       publishedDate |-> Num(Q(NowTick, 1))],
      [doc_id |-> "d2", title |-> Str(S_ab), content |-> Str(S_ba),
       publishedDate |-> Num(Q(NowTick, 1))],
      [doc_id |-> "d3", title |-> Str(<<"B">>), content |-> Str(<<"a">>),
       publishedDate |-> Num(Q(NowTick - maxAge * TicksPerDay, 1))] }

VectorScores == {Num(Zero), Num(Q(1, 5))}

SeqsUpTo(S, n) == UNION {[1..m -> S] : m \in 0..n}

\* What the primary query may return: distinct documents, each with a vector
\* distance, in ascending order of distance (SORTBY ... ASC).
PrimaryHits ==
    {[doc_id |-> d.doc_id, title |-> d.title, content |-> d.content,
      publishedDate |-> d.publishedDate, title_vector_score |-> v] :
        d \in Corpus, v \in VectorScores}
HitLists ==
    {h \in SeqsUpTo(PrimaryHits, MaxHits) :
        /\ \A i, j \in 1..Len(h) : i # j => h[i].doc_id # h[j].doc_id
        /\ \A i \in 1..(Len(h) - 1) :
              RLe(h[i].title_vector_score.n, h[i + 1].title_vector_score.n)}

\* What the secondary query (chunks, or URL vectors) may return.
SecondaryHits == {[parent_id |-> id, score |-> v] : id \in {"d1", "d3"}, v \in VectorScores}
ChunkLists ==
    {h \in SeqsUpTo(SecondaryHits, MaxChunkHits) :
        \A i \in 1..(Len(h) - 1) : RLe(h[i].score.n, h[i + 1].score.n)}

DefaultDocWeights ==
    Weights(Num(One), Num(One), Num(Q(3, 2)), Num(One), Undefined, Undefined)
DefaultUrlWeights ==
    Weights(Num(One), Undefined, Num(Q(3, 2)), Undefined, Num(One), Undefined)
\* Weight vectors a caller may send instead of the default.
TitleOnlyWeights ==
    Weights(Num(One), Undefined, Undefined, Undefined, Undefined, Undefined)
CallerRerankWeights ==
    Weights(Num(One), Num(One), Num(One), Num(Zero), Num(One), Num(Q(5, 1)))

BodyOf(q, fv, ai, rr, w) ==
    [query |-> q, fuzzyValue |-> fv, aiEnhanced |-> ai, useLlmReranking |-> rr,
     weights |-> w]

\* The request bodies explored: every combination of the two flags with three
\* weight vectors, one body with a fuzzyValue of its own, one without a query.
Bodies(v) ==
    LET default == IF v = "doc" THEN DefaultDocWeights ELSE DefaultUrlWeights
        flags == IF v = "doc" THEN BOOLEAN ELSE {FALSE}
    IN  {BodyOf(Str(S_ab), Undefined, ai, rr, w) :
            ai \in flags, rr \in flags,
            w \in {default, TitleOnlyWeights, CallerRerankWeights}}
        \cup {BodyOf(Str(S_ab), Str(<<"a">>), FALSE, FALSE, default),
              BodyOf(Undefined, Undefined, FALSE, FALSE, default)}

\* Answers of the completion provider at the optimizer step.
OptimizerCompletions ==
    { ProviderError,
      Completion(<<>>),
      Completion(<<Tok("fence"), Tok("lbrace"), Tok("text"), Tok("rbrace"), Tok("fence")>>),
      Completion(<<Tok("lbrace"), Member("exact_search", Str(<<"a">>)), Tok("rbrace")>>),
      Completion(<<Tok("lbrace"), Member("exact_search", Str(<<"a">>)), Tok("comma"),
                   Member("vector_search", Str(S_ab)), Tok("comma"),
                   Member("recency_bias", Num(One)), Tok("comma"), Tok("rbrace")>>),
      Completion(<<Tok("lbrace"), Member("exact_search", Num(Q(42, 1))), Tok("comma"),
                   Member("vector_search", Str(S_ab)), Tok("comma"),
                   Member("recency_bias", Num(Half)), Tok("rbrace")>>),
      Completion(<<Tok("lbrace"), Member("exact_search", Str(<<"a">>)), Tok("comma"),
                   Member("vector_search", Str(S_ab)), Tok("comma"),
                   Member("recency_bias", Num(Q(3, 1))), Tok("rbrace")>>) }

\* Answers of the completion provider at the reranker step.
RerankerCompletions ==
    { ProviderError,
      Completion(<<Tok("text")>>),
      Completion(<<Tok("lbrace"), Member("d1", Num(Q(9, 10))), Tok("comma"),
                   Member("d2", Num(Q(1, 10))), Tok("comma"),
                   Member("d3", Num(Q(3, 1))), Tok("rbrace")>>),
      Completion(<<Tok("lbrace"), Member("d1", Num(Zero)), Tok("comma"),
                   Member("d3", Null), Tok("rbrace")>>) }

NoResponse == [status |-> 0, results |-> <<>>]

----------------------------------------------------------------------------
(* searchController.ts: one request through searchDocuments or searchUrls *)

\* The value of a result that has not been computed yet.
Pending == [pending |-> TRUE]

\* No call of calculateWeightedScore, optimizeQuery or rerankResults on its own
\* is under way, and no group of concurrent requests.
FuseIdle == fuseScores = <<>> /\ fuseWeights = <<>> /\ fuseResult = Pending
OptIdle == optQuery = Undefined /\ optCompletion = ProviderError /\ optResult = Pending
RerankIdle == rrDocuments = <<>> /\ rrCompletion = ProviderError /\ rrResult = Pending
CtlIdle == reqs = <<>> /\ clients = <<>>
FuzzyIdle == fzText = Undefined /\ fzQuery = Undefined /\ fzResult = Pending
RecencyIdle == rcDate = Undefined /\ rcBias = Undefined /\ rcNow = 0 /\ rcResult = Pending
IndexIdle ==
    /\ ixKind = "doc" /\ ixBatch = <<>> /\ ixAt = [item |-> 0, step |-> "idle", chunk |-> 0] /\ ixCount = 0
    /\ ixStore = {} /\ ixFailed = {} /\ ixReturned = Pending
TwiceIdle == twInput = <<>> /\ twNow = <<>> /\ twRuns = <<>>
PairIdle == prDocs = <<>> /\ prOut = <<>>
ParseIdle == pjText = <<>> /\ pjResult = Pending
SchedIdle ==
    /\ scDocumentJob = 0 /\ scUrlJob = 0 /\ scActive = {} /\ scIssued = 0
    /\ scLast = "idle"
ChunkIdle ==
    /\ ckWords = 0 /\ ckSize = 0 /\ ckOverlap = 0 /\ ckI = 0 /\ ckChunks = 0
    /\ ckPc = "idle"

\* No single request is under way.
SearchIdle ==
    /\ variant = "doc"
    /\ body = BodyOf(Undefined, Undefined, FALSE, FALSE, DefaultDocWeights)
    /\ pc = "idle"
    /\ now = NowTick
    /\ clientOpen = FALSE
    /\ exactQuery = Undefined
    /\ vectorQuery = Undefined
    /\ recencyBias = Num(Half)
    /\ optimizerSaid = ProviderError
    /\ docsResults = <<>>
    /\ chunksResults = <<>>
    /\ inFlight = {}
    /\ candidates = <<>>
    /\ rerankerSaid = ProviderError
    /\ rerankScores = EmptyMap
    /\ output = <<>>
    /\ searchOutcome = "none"
    /\ response = NoResponse
    /\ sent = 0
    /\ cleanupThrew = FALSE
    /\ calls = <<>>
    /\ failedCall = "none"

Init ==
    /\ ParseIdle /\ SchedIdle /\ ChunkIdle
    /\ FuseIdle /\ OptIdle /\ RerankIdle /\ CtlIdle
    /\ FuzzyIdle /\ RecencyIdle /\ IndexIdle /\ TwiceIdle /\ PairIdle
    /\ variant \in {"doc", "url"}
    /\ body \in Bodies(variant)
    /\ pc = "handler"
    /\ now = NowTick
    /\ clientOpen = FALSE
    /\ exactQuery = Undefined
    /\ vectorQuery = Undefined
    /\ recencyBias = Num(Half)
    /\ optimizerSaid = ProviderError
    /\ docsResults = <<>>
    /\ chunksResults = <<>>
    /\ inFlight = {}
    /\ candidates = <<>>
    /\ rerankerSaid = ProviderError
    /\ rerankScores = EmptyMap
    /\ output = <<>>
    /\ searchOutcome = "none"
    /\ response = NoResponse
    /\ sent = 0
    /\ cleanupThrew = FALSE
    /\ calls = <<>>
    /\ failedCall = "none"

\* Lines 9-34 (73-93): the body is read; a missing query is answered 400 and the
\* handler returns through its finally block.
Validate ==
    /\ pc = "handler"
    /\ UNCHANGED <<fuseVars, optVars, rrVars, ctlVars, fzVars, rcVars, ixVars, twVars, prVars, pjVars, scVars, ckVars>>
    /\ IF ~Truthy(body.query)
       THEN /\ response' = [status |-> 400, results |-> <<>>]
            /\ sent' = sent + 1
            /\ pc' = "cleanup"
            /\ UNCHANGED <<exactQuery, vectorQuery>>
       ELSE /\ pc' = "connect"
            /\ exactQuery' = JsOr(body.fuzzyValue, body.query)
            /\ vectorQuery' = body.query
            /\ UNCHANGED <<response, sent>>
    /\ UNCHANGED <<variant, body, now, inFlight, clientOpen, recencyBias, optimizerSaid,
                   docsResults, chunksResults, candidates, rerankerSaid, rerankScores,
                   output, searchOutcome, cleanupThrew, calls, failedCall>>

\* Line 36 (95): initialize() awaits client.connect(); a rejection is caught at
\* line 59 (113) and answered 500.
Connect ==
    /\ pc = "connect"
    /\ UNCHANGED <<fuseVars, optVars, rrVars, ctlVars, fzVars, rcVars, ixVars, twVars, prVars, pjVars, scVars, ckVars>>
    /\ calls' = Append(calls, "connect")
    /\ \E ok \in BOOLEAN :
          IF ok
          THEN /\ clientOpen' = TRUE
               /\ pc' = IF variant = "doc" /\ body.aiEnhanced THEN "optimize" ELSE "embed"
               /\ UNCHANGED <<response, sent, failedCall>>
          ELSE /\ response' = [status |-> 500, results |-> <<>>]
               /\ sent' = sent + 1
               /\ failedCall' = "connect"
               /\ pc' = "cleanup"
               /\ UNCHANGED clientOpen
    /\ UNCHANGED <<variant, body, now, inFlight, exactQuery, vectorQuery, recencyBias,
                   optimizerSaid, docsResults, chunksResults, candidates, rerankerSaid,
                   rerankScores, output, searchOutcome, cleanupThrew>>

\* DocumentSearchService.search lines 80-91: the optimizer step.
Optimize ==
    /\ pc = "optimize"
    /\ UNCHANGED <<fuseVars, optVars, rrVars, ctlVars, fzVars, rcVars, ixVars, twVars, prVars, pjVars, scVars, ckVars>>
    /\ calls' = Append(calls, "optimizer")
    /\ \E c \in OptimizerCompletions :
          LET optimizedParams == OptimizeQuery(body.query, c)
          IN  /\ optimizerSaid' = c
              /\ IF optimizedParams.threw
                 THEN UNCHANGED <<exactQuery, vectorQuery, recencyBias>>
                 ELSE /\ exactQuery' = optimizedParams.exactSearch
                      /\ vectorQuery' = optimizedParams.vectorSearch
                      /\ recencyBias' = optimizedParams.recencyBias
    /\ pc' = "embed"
    /\ UNCHANGED <<variant, body, now, inFlight, clientOpen, docsResults, chunksResults,
                   candidates, rerankerSaid, rerankScores, output, searchOutcome,
                   response, sent, cleanupThrew, failedCall>>

\* Mutant of SearchThrows: the catch swallows the error and search returns what
\* it has so far.
SearchSwallows ==
    /\ searchOutcome' = "returned"
    /\ response' = [status |-> 200, results |-> output]
    /\ sent' = sent + 1
    /\ pc' = "cleanup"

\* The catch of lines 272-275 rethrows; the controller's catch answers 500.
SearchThrows ==
    /\ searchOutcome' = "threw"
    /\ response' = [status |-> 500, results |-> <<>>]
    /\ sent' = sent + 1
    /\ pc' = "cleanup"

\* Mutant of Embed: a rejected embedding call is tried again.
EmbedRetries ==
    /\ pc = "embed"
    /\ UNCHANGED <<fuseVars, optVars, rrVars, ctlVars, fzVars, rcVars, ixVars, twVars, prVars, pjVars, scVars, ckVars>>
    /\ calls' = Append(calls, "embedding")
    /\ \E ok \in BOOLEAN :
          /\ pc' = IF ok THEN "docsQuery" ELSE "embed"
          /\ UNCHANGED <<searchOutcome, response, sent, failedCall>>
    /\ UNCHANGED <<variant, body, now, inFlight, clientOpen, exactQuery, vectorQuery, recencyBias,
                   optimizerSaid, docsResults, chunksResults, candidates, rerankerSaid,
                   rerankScores, output, cleanupThrew>>

\* Line 94 (52): the embedding of the vector query.
Embed ==
    /\ pc = "embed"
    /\ UNCHANGED <<fuseVars, optVars, rrVars, ctlVars, fzVars, rcVars, ixVars, twVars, prVars, pjVars, scVars, ckVars>>
    /\ calls' = Append(calls, "embedding")
    /\ \E ok \in BOOLEAN :
          IF ok
          THEN pc' = "docsQuery" /\ UNCHANGED <<searchOutcome, response, sent, failedCall>>
          ELSE SearchThrows /\ failedCall' = "embedding"
    /\ UNCHANGED <<variant, body, now, inFlight, clientOpen, exactQuery, vectorQuery, recencyBias,
                   optimizerSaid, docsResults, chunksResults, candidates, rerankerSaid,
                   rerankScores, output, cleanupThrew>>

\* Lines 129-138 (59-68): the primary query is sent.
DocsQuery ==
    /\ pc = "docsQuery"
    /\ UNCHANGED <<fuseVars, optVars, rrVars, ctlVars, fzVars, rcVars, ixVars, twVars, prVars, pjVars, scVars, ckVars>>
    /\ calls' = Append(calls, "docsQuery")
    /\ inFlight' = inFlight \cup {"docsQuery"}
    /\ pc' = "docsAwait"
    /\ UNCHANGED <<variant, body, now, clientOpen, exactQuery, vectorQuery, recencyBias,
                   optimizerSaid, docsResults, chunksResults, candidates, rerankerSaid,
                   rerankScores, output, searchOutcome, response, sent, cleanupThrew,
                   failedCall>>

\* The await of line 129 (59): search goes on when the primary query has
\* been answered or has failed.
DocsResponse ==
    /\ pc = "docsAwait"
    /\ UNCHANGED <<fuseVars, optVars, rrVars, ctlVars, fzVars, rcVars, ixVars, twVars, prVars, pjVars, scVars, ckVars>>
    /\ inFlight' = inFlight \ {"docsQuery"}
    /\ \/ /\ SearchThrows
          /\ failedCall' = "docsQuery"
          /\ UNCHANGED docsResults
       \/ \E h \in HitLists :
             /\ docsResults' = h
             /\ pc' = "chunksQuery"
             /\ UNCHANGED <<searchOutcome, response, sent, failedCall>>
    /\ UNCHANGED <<variant, body, now, clientOpen, exactQuery, vectorQuery, recencyBias,
                   optimizerSaid, chunksResults, candidates, rerankerSaid, rerankScores,
                   output, cleanupThrew, calls>>

\* Lines 175-211 (95-132) over every primary hit.
CandidatesOf(hits, secondary) ==
    IF variant = "doc"
    THEN [i \in 1..Len(hits) |->
             DocCandidate(hits[i], AvgChunkScores(secondary), exactQuery, recencyBias, now)]
    ELSE [i \in 1..Len(hits) |->
             UrlCandidate(hits[i], UrlScores(secondary), exactQuery, body.weights)]

\* Mutant of CallerWeightsAfter: line 261 writes rerankWeight to the object
\* the caller passed.
CallerWeightsShared(weights, docs) ==
    IF \E i \in 1..Len(docs) : docs[i].rerankScore # Undefined
    THEN [weights EXCEPT !["rerankWeight"] = Num(RerankWeight)]
    ELSE weights

\* The caller's weights object after the loop of lines 232-266: line 256 makes
\* weightsCopy a fresh object ({ ...weights }) and line 261 writes to that
\* copy, so the caller's object keeps its members.
CallerWeightsAfter(weights, docs) == weights

\* Lines 231-271: the weighted scores, the sort and the return; the controller
\* answers 200 with the list (lines 45-58).
Return(docs) ==
    LET scored == IF variant = "doc"
                  THEN [i \in 1..Len(docs) |-> WithWeightedScore(docs[i], body.weights)]
                  ELSE docs
    IN  /\ body' = [body EXCEPT !.weights =
                        IF variant = "doc" THEN CallerWeightsAfter(body.weights, docs)
                        ELSE body.weights]
        /\ output' \in SortedOutputs(scored)
        /\ searchOutcome' = "returned"
        /\ response' = [status |-> 200, results |-> output']
        /\ sent' = sent + 1
        /\ pc' = "cleanup"

\* The rest of search once the secondary query has returned c and the
\* candidates built are known.
AfterQueries(c, built) ==
    /\ chunksResults' = c
    /\ IF \E i \in 1..Len(built) : built[i].threw
       THEN SearchThrows /\ UNCHANGED <<body, candidates, output>>
       ELSE /\ candidates' = built
            /\ IF variant = "doc" /\ body.useLlmReranking /\ Len(built) > 0
               THEN /\ pc' = "rerank"
                    /\ UNCHANGED <<body, output, searchOutcome, response, sent>>
               ELSE Return(built)

\* Lines 144-153 (74-83): the secondary query is sent.
ChunksQuery ==
    /\ pc = "chunksQuery"
    /\ UNCHANGED <<fuseVars, optVars, rrVars, ctlVars, fzVars, rcVars, ixVars, twVars, prVars, pjVars, scVars, ckVars>>
    /\ calls' = Append(calls, "chunksQuery")
    /\ inFlight' = inFlight \cup {"chunksQuery"}
    /\ pc' = "chunksAwait"
    /\ UNCHANGED <<variant, body, now, clientOpen, exactQuery, vectorQuery, recencyBias,
                   optimizerSaid, docsResults, chunksResults, candidates, rerankerSaid,
                   rerankScores, output, searchOutcome, response, sent, cleanupThrew,
                   failedCall>>

\* The await of line 144 (74), then lines 155-211 (85-137): the secondary
\* query is answered and the candidates are built; a TypeError out of a fuzzy
\* score ends the search like any other error.
ChunksResponse ==
    /\ pc = "chunksAwait"
    /\ UNCHANGED <<fuseVars, optVars, rrVars, ctlVars, fzVars, rcVars, ixVars, twVars, prVars, pjVars, scVars, ckVars>>
    /\ inFlight' = inFlight \ {"chunksQuery"}
    /\ \/ /\ SearchThrows
          /\ failedCall' = "chunksQuery"
          /\ UNCHANGED <<body, chunksResults, candidates, output>>
       \/ /\ \E c \in ChunkLists : AfterQueries(c, CandidatesOf(docsResults, c))
          /\ UNCHANGED failedCall
    /\ UNCHANGED <<variant, now, clientOpen, exactQuery, vectorQuery, recencyBias,
                   optimizerSaid, docsResults, rerankerSaid, rerankScores, cleanupThrew,
                   calls>>

\* Lines 214-229: the reranker step, then the rest of search.
Rerank ==
    /\ pc = "rerank"
    /\ UNCHANGED <<fuseVars, optVars, rrVars, ctlVars, fzVars, rcVars, ixVars, twVars, prVars, pjVars, scVars, ckVars>>
    /\ calls' = Append(calls, "reranker")
    /\ \E c \in RerankerCompletions :
          LET reranked == RerankResults(candidates, c)
          IN  /\ rerankerSaid' = c
              /\ IF reranked.threw
                 THEN /\ UNCHANGED rerankScores
                      /\ Return(candidates)
                 ELSE /\ rerankScores' = reranked.scores
                      /\ Return([i \in 1..Len(candidates) |->
                                    WithRerankScore(candidates[i], reranked.scores)])
    /\ UNCHANGED <<variant, now, inFlight, clientOpen, exactQuery, vectorQuery, recencyBias,
                   optimizerSaid, docsResults, chunksResults, candidates, cleanupThrew,
                   failedCall>>

\* Lines 66-68 (120-122): finally, cleanup() awaits client.disconnect(), which
\* rejects on a client that is not open.
Cleanup ==
    /\ pc = "cleanup"
    /\ UNCHANGED <<fuseVars, optVars, rrVars, ctlVars, fzVars, rcVars, ixVars, twVars, prVars, pjVars, scVars, ckVars>>
    /\ calls' = Append(calls, "disconnect")
    /\ IF clientOpen
       THEN clientOpen' = FALSE /\ UNCHANGED cleanupThrew
       ELSE cleanupThrew' = TRUE /\ UNCHANGED clientOpen
    /\ pc' = "done"
    /\ UNCHANGED <<variant, body, now, inFlight, exactQuery, vectorQuery, recencyBias,
                   optimizerSaid, docsResults, chunksResults, candidates, rerankerSaid,
                   rerankScores, output, searchOutcome, response, sent, failedCall>>

Next ==
    \/ Validate
    \/ Connect
    \/ Optimize
    \/ Embed
    \/ DocsQuery
    \/ DocsResponse
    \/ ChunksQuery
    \/ ChunksResponse
    \/ Rerank
    \/ Cleanup

Spec == Init /\ [][Next]_vars

----------------------------------------------------------------------------
(* Properties of one request (specification Spec) *)

Called(name) == \E i \in 1..Len(calls) : calls[i] = name
Ids(docs) == [i \in 1..Len(docs) |-> docs[i].docId]

\* The ranking key as the specification words it: weightedScore whenever it is
\* defined (0 included), overallScore only when it is not.
ClaimedKey(doc) ==
    IF doc.weightedScore # Undefined THEN doc.weightedScore ELSE doc.overallScore

\* C1: the list DocumentSearchService.search / UrlSearchService.search returns is
\* ordered non-increasing by ranking key, the key being weightedScore whenever it
\* is defined (also when it is 0) and overallScore otherwise.
C1_OrderedByRankingKey ==
    searchOutcome = "returned" =>
        \A i \in 1..(Len(output) - 1) :
            (IsNum(ClaimedKey(output[i])) /\ IsNum(ClaimedKey(output[i + 1])))
                => RLe(ClaimedKey(output[i + 1]).n, ClaimedKey(output[i]).n)

RECURSIVE SumOver(_, _)
\* The sum of f[x] over the finite set S of a function into rationals.
SumOver(S, f) ==
    IF S = {} THEN Zero
    ELSE LET x == CHOOSE y \in S : TRUE
         IN  RAdd(f[x], SumOver(S \ {x}, f))

\* The pairs of FusedSignals whose score and weight are both defined.
Paired(scores, weights) ==
    {i \in 1..Len(FusedSignals) :
        scores[FusedSignals[i][1]] # Undefined /\ weights[FusedSignals[i][2]] # Undefined}

\* The weighted mean of a candidate's signals with its rerank score taken in at
\* weight 2.0.
MeanWithRerank(doc, weights) ==
    LET sc == ScoresOf(doc)
        P == Paired(sc, weights)
        num == RAdd(SumOver(P, [i \in P |-> RMul(sc[FusedSignals[i][1]].n,
                                                 weights[FusedSignals[i][2]].n)]),
                    RMul(doc.rerankScore.n, RerankWeight))
        den == RAdd(SumOver(P, [i \in P |-> weights[FusedSignals[i][2]].n]), RerankWeight)
    IN  Num(RDiv(num, den))

SameOtherSignals(a, b) ==
    /\ a.titleVectorScore = b.titleVectorScore
    /\ a.avgChunkScore = b.avgChunkScore
    /\ a.fuzzyScore = b.fuzzyScore
    /\ a.recencyScore = b.recencyScore

RerankerReturnedScores ==
    /\ searchOutcome = "returned"
    /\ Called("reranker")
    /\ ~RerankResults(candidates, rerankerSaid).failed

\* C3: when the reranker returned scores, each candidate's weightedScore is the
\* weighted mean of its signals with rerankScore in at the fixed weight 2.0, so
\* two candidates equal in every other signal and different in rerankScore get
\* different weightedScores and are ordered by rerankScore.
C3_RerankWeightedAtTwo ==
    RerankerReturnedScores =>
        /\ \A i \in 1..Len(output) :
              output[i].weightedScore = MeanWithRerank(output[i], body.weights)
        /\ \A i, j \in 1..Len(output) :
              (/\ SameOtherSignals(output[i], output[j])
               /\ RLt(output[j].rerankScore.n, output[i].rerankScore.n))
                  => /\ output[i].weightedScore # output[j].weightedScore
                     /\ i < j

\* The positions of the chunk hits whose parent is the document id.
ChunkHitsOf(id) == {k \in 1..Len(chunksResults) : chunksResults[k].parent_id = id}

\* The arithmetic mean of the chunk_vector_score of the hits at positions K.
ChunkMean(K) ==
    Num(RDiv(SumOver(K, [k \in K |-> chunksResults[k].score.n]), Q(Cardinality(K), 1)))

\* The weighted mean over the paired signals of a candidate without rerank score.
MeanOfPaired(doc, weights) ==
    LET sc == ScoresOf(doc)
        P == Paired(sc, weights)
        num == SumOver(P, [i \in P |-> RMul(sc[FusedSignals[i][1]].n,
                                             weights[FusedSignals[i][2]].n)])
        den == SumOver(P, [i \in P |-> weights[FusedSignals[i][2]].n])
    IN  IF den = Zero THEN Num(Zero) ELSE Num(RDiv(num, den))

AllPairedNumeric(doc, weights) ==
    \A i \in Paired(ScoresOf(doc), weights) :
        IsNum(ScoresOf(doc)[FusedSignals[i][1]]) /\ IsNum(weights[FusedSignals[i][2]])

DocSearchReturned == variant = "doc" /\ searchOutcome = "returned"

\* C17: in document search a candidate's avgChunkScore is the arithmetic mean
\* of the chunk_vector_score of the chunk hits whose parent_id is its id, and
\* exactly 0 when there is none; the fuser takes that 0 as a present score: its
\* pair counts in the weighted mean, chunkWeight in the total weight.
C17_AvgChunkScoreIsMeanOrZero ==
    DocSearchReturned =>
        \A i \in 1..Len(output) :
            /\ output[i].avgChunkScore =
                   IF ChunkHitsOf(output[i].docId) = {} THEN Num(Zero)
                   ELSE ChunkMean(ChunkHitsOf(output[i].docId))
            /\ (/\ ChunkHitsOf(output[i].docId) = {}
                /\ body.weights.chunkWeight # Undefined
                /\ output[i].rerankScore = Undefined
                /\ AllPairedNumeric(output[i], body.weights))
                   => /\ 2 \in Paired(ScoresOf(output[i]), body.weights)
                      /\ output[i].weightedScore = MeanOfPaired(output[i], body.weights)

\* A returned list with a candidate that has two chunk hits of different
\* scores and a candidate that has none, whose 0 lowers its weighted score
\* below the mean of its other signals.
C17_Witness ==
    /\ DocSearchReturned
    /\ \E i \in 1..Len(output) :
          /\ Cardinality(ChunkHitsOf(output[i].docId)) = 2
          /\ output[i].avgChunkScore = Num(Q(1, 10))
    /\ \E j \in 1..Len(output) :
          /\ ChunkHitsOf(output[j].docId) = {}
          /\ output[j].avgChunkScore = Num(Zero)
          /\ output[j].rerankScore = Undefined
          /\ body.weights.chunkWeight = Num(One)
          /\ AllPairedNumeric(output[j], body.weights)
          /\ output[j].weightedScore = MeanOfPaired(output[j], body.weights)
          /\ output[j].weightedScore # Num(Zero)

\* The external calls of search, in the order the stages name them.
StageRank(name) ==
    CASE name = "optimizer" -> 1
      [] name = "embedding" -> 2
      [] name = "docsQuery" -> 3
      [] name = "chunksQuery" -> 4
      [] name = "reranker" -> 5
      [] OTHER -> 0

\* The calls search itself has made so far (connect and disconnect are the
\* controller's).
SearchCalls == SelectSeq(calls, LAMBDA c : StageRank(c) > 0)

\* C21: within one DocumentSearchService.search call the external calls come
\* in the order optimizer (only if aiEnhanced), embedding, index queries,
\* reranker (only if useLlmReranking and there is a candidate), each at most
\* once; nothing is retried, and a failed embedding or index query is the last
\* call of the search.
C21_StagesInOrderAtMostOnce ==
    variant = "doc" =>
        /\ \A i, j \in 1..Len(SearchCalls) :
              i < j => StageRank(SearchCalls[i]) < StageRank(SearchCalls[j])
        /\ Called("optimizer") => body.aiEnhanced
        /\ Called("reranker") => (body.useLlmReranking /\ Len(candidates) > 0)
        /\ failedCall \in {"embedding", "docsQuery", "chunksQuery"} =>
              SearchCalls[Len(SearchCalls)] = failedCall

\* A search that went through all five calls and returned.
C21_Witness ==
    /\ variant = "doc"
    /\ pc = "done"
    /\ searchOutcome = "returned"
    /\ SearchCalls = <<"optimizer", "embedding", "docsQuery", "chunksQuery", "reranker">>

\* A search whose primary query failed: the chunk query and the reranker were
\* never called.
C21_WitnessAbort ==
    /\ variant = "doc"
    /\ pc = "done"
    /\ body.useLlmReranking
    /\ failedCall = "docsQuery"
    /\ SearchCalls = <<"embedding", "docsQuery">>

\* C22: in the Retrieve stage the primary query and the chunk (URL-vector)
\* query are issued concurrently: the second query is sent before the first
\* has returned, so both are in flight at the same time.
C22_SecondQuerySentWhileFirstInFlight ==
    [][("chunksQuery" \notin inFlight /\ "chunksQuery" \in inFlight')
          => "docsQuery" \in inFlight]_vars

\* The reranker was called and its try block failed (provider error, empty or
\* unparseable response).
RerankStepFailed ==
    /\ searchOutcome = "returned"
    /\ Called("reranker")
    /\ RerankResults(candidates, rerankerSaid).failed

\* C23: when the reranker step fails, the candidates search returns carry no
\* rerank score (rerankScore stays undefined, it is not defaulted to a number)
\* and no rerank weight is added to the weights their fusion uses.
C23_FailedRerankLeavesNoScore ==
    RerankStepFailed =>
        \A i \in 1..Len(output) :
            /\ output[i].rerankScore = Undefined
            /\ WeightsCopy(output[i], body.weights) = body.weights

\* C24: after a successful rerank every candidate whose id is in the returned
\* map has the returned clamped score as rerankScore, for every value in
\* [0, 1], 0 included, and every candidate whose id is missing has 0.5.
C24_RerankScoreIsReturnedScore ==
    RerankerReturnedScores =>
        \A i \in 1..Len(output) :
            output[i].rerankScore =
                IF output[i].docId \in DOMAIN rerankScores
                THEN Num(rerankScores[output[i].docId])
                ELSE Num(Half)

C27_RecencyBiasInUnitInterval ==
    /\ IsNum(recencyBias)
    /\ RLe(Zero, recencyBias.n)
    /\ RLe(recencyBias.n, One)

\* C4: whatever the completion provider does at the optimizer or the reranker
\* step, a document search whose embedding call and both index queries succeed
\* returns a ranked list and does not throw.
C4_AiStepsNeverAbortSearch ==
    (/\ variant = "doc"
     /\ pc \in {"cleanup", "done"}
     /\ Called("chunksQuery")
     /\ failedCall = "none")
        => /\ searchOutcome = "returned"
           /\ response.status = 200

\* C5: when the embedding call or an index query fails, search throws, returns no
\* list (no partial results), and the controller answers once, with an error.
C5_FatalFailurePropagates ==
    failedCall \in {"embedding", "docsQuery", "chunksQuery"} =>
        /\ searchOutcome = "threw"
        /\ output = <<>>
        /\ response = [status |-> 500, results |-> <<>>]
        /\ sent = 1

\* A chunk query failed after the primary query had returned hits, and the
\* request ran to its end.
C5_Witness ==
    /\ pc = "done"
    /\ failedCall = "chunksQuery"
    /\ Len(docsResults) > 0

\* C7: a request calls disconnect exactly once at its end and only after a
\* successful connect of its own.
C7_DisconnectOnlyAfterOwnConnect ==
    Called("disconnect") =>
        /\ Called("connect")
        /\ failedCall # "connect"
        /\ Cardinality({i \in 1..Len(calls) : calls[i] = "disconnect"}) = 1

\* The order search produces on the same inputs with useLlmReranking = false.
OrdersWithoutReranking ==
    {Ids(o) : o \in SortedOutputs([i \in 1..Len(candidates) |->
                                      WithWeightedScore(candidates[i], body.weights)])}

\* C8: when the completion provider errors during reranking, every candidate's
\* rerank score is exactly 0.5 and the results come in the order they have with
\* useLlmReranking = false.
C8_FailedRerankKeepsOrder ==
    (/\ searchOutcome = "returned"
     /\ Called("reranker")
     /\ rerankerSaid = ProviderError)
        => /\ \A i \in 1..Len(output) : output[i].rerankScore = Num(Half)
           /\ Ids(output) \in OrdersWithoutReranking

\* The provider failed at the reranker step of a search that returned two
\* candidates in another order than the index gave them.
C8_Witness ==
    /\ searchOutcome = "returned"
    /\ Called("reranker")
    /\ rerankerSaid = ProviderError
    /\ Len(output) = 2
    /\ output[1].docId # docsResults[1].doc_id

----------------------------------------------------------------------------
(* calculateWeightedScore on its own (specification SpecFuse) *)

\* The value each score and each weight has when it is present: all different,
\* so that a score paired with another signal's weight shows.
ScoreValue(sn) ==
    CASE sn = "titleVectorScore" -> Num(Q(1, 5))
      [] sn = "avgChunkScore" -> Num(Q(2, 5))
      [] sn = "fuzzyScore" -> Num(Q(7, 10))
      [] sn = "recencyScore" -> Num(Half)
      [] sn = "urlVectorScore" -> Num(Q(3, 5))
      [] OTHER -> Num(Q(9, 10))
WeightValue(w) ==
    CASE w = "titleWeight" -> Num(One)
      [] w = "chunkWeight" -> Num(Q(2, 1))
      [] w = "fuzzyWeight" -> Num(Q(3, 2))
      [] w = "recencyWeight" -> Num(Q(1, 2))
      [] w = "urlWeight" -> Num(Q(3, 1))
      [] OTHER -> Num(Q(5, 1))

\* Every scores object: each score present or absent.
FuseScoreInputs ==
    {[sn \in ScoreNames |-> IF sn \in S THEN ScoreValue(sn) ELSE Undefined] :
        S \in SUBSET ScoreNames}
\* Every weights object: each weight present, zero or absent, and the chunk
\* weight possibly -1 (which cancels the title weight).
FuseWeightInputs ==
    {[w \in WeightNames |->
         IF w \in N THEN Num(Q(0 - 1, 1))
         ELSE IF w \in S THEN WeightValue(w)
         ELSE IF w \in Z THEN Num(Zero) ELSE Undefined] :
        S \in SUBSET WeightNames, Z \in SUBSET {"titleWeight", "fuzzyWeight", "urlWeight"},
        N \in SUBSET {"chunkWeight"}}

FuseInit ==
    /\ ParseIdle /\ SchedIdle /\ ChunkIdle
    /\ SearchIdle /\ OptIdle /\ RerankIdle /\ CtlIdle
    /\ FuzzyIdle /\ RecencyIdle /\ IndexIdle /\ TwiceIdle /\ PairIdle
    /\ fuseScores \in FuseScoreInputs
    /\ fuseWeights \in FuseWeightInputs
    /\ fuseResult = Pending

\* The call calculateWeightedScore(scores, weights).
Fuse ==
    /\ fuseResult = Pending
    /\ fuseResult' = CalculateWeightedScore(fuseScores, fuseWeights)
    /\ UNCHANGED <<fuseScores, fuseWeights, searchVars, fzVars, rcVars, ixVars, twVars, prVars, pjVars, scVars, ckVars, optVars, rrVars, ctlVars>>

FuseNext == Fuse

SpecFuse == FuseInit /\ [][FuseNext]_vars

\* The signals among the five whose score and weight are both defined, and the
\* two sums taken over them.
FusePaired == Paired(fuseScores, fuseWeights)
FuseNumerator ==
    SumOver(FusePaired, [i \in FusePaired |->
                            RMul(fuseScores[FusedSignals[i][1]].n,
                                 fuseWeights[FusedSignals[i][2]].n)])
FuseDenominator ==
    SumOver(FusePaired, [i \in FusePaired |-> fuseWeights[FusedSignals[i][2]].n])

\* C2: calculateWeightedScore returns sum(score * weight) / sum(weight) over
\* exactly the signals (title, chunk, fuzzy, recency, url) whose score and weight
\* are both defined; a score without its weight or a weight without its score
\* enters neither sum, and the call returns a number whatever is missing.
C2_WeightedMeanOfPairedSignals ==
    fuseResult # Pending =>
        /\ IsNum(fuseResult)
        /\ FuseDenominator # Zero =>
               fuseResult = Num(RDiv(FuseNumerator, FuseDenominator))

\* A call with two paired signals, a score that has no weight and a weight that
\* has no score.
C2_Witness ==
    /\ fuseResult # Pending
    /\ Cardinality(FusePaired) >= 2
    /\ FuseDenominator # Zero
    /\ \E i \in 1..Len(FusedSignals) :
          fuseScores[FusedSignals[i][1]] # Undefined
          /\ fuseWeights[FusedSignals[i][2]] = Undefined
    /\ \E i \in 1..Len(FusedSignals) :
          fuseScores[FusedSignals[i][1]] = Undefined
          /\ fuseWeights[FusedSignals[i][2]] \notin {Undefined, Num(Zero)}

\* C11: calculateWeightedScore returns exactly 0, and does not throw, whenever
\* the accumulated weight is 0: for empty maps, for weights that are all 0 (or
\* cancel), and when no score has a matching weight.
C11_ZeroWeightGivesZero ==
    (fuseResult # Pending /\ FuseDenominator = Zero) => fuseResult = Num(Zero)

\* A call whose paired signals have scores that are not 0 and weights that sum
\* to 0.
C11_Witness ==
    /\ fuseResult # Pending
    /\ Cardinality(FusePaired) >= 2
    /\ FuseDenominator = Zero
    /\ FuseNumerator # Zero

----------------------------------------------------------------------------
(* optimizeQuery on its own (specification SpecOpt) *)

\* Completions are drawn from every token sequence of at most MaxTokens tokens
\* and from whole objects in four wrappings.
MaxTokens == 3

OptTokens ==
    {Tok("fence"), Tok("lbrace"), Tok("rbrace"), Tok("comma"), Tok("text"),
     Literal(Null), Literal(Num(One)),
     Member("exact_search", Str(<<"a">>)), Member("vector_search", Str(S_ab)),
     Member("recency_bias", Num(One))}

\* "{" m1 "," m2 ... "}" for the members given.
ObjectText(members) ==
    <<Tok("lbrace")>>
    \o [i \in 1..(IF members = <<>> THEN 0 ELSE 2 * Len(members) - 1) |->
           IF i % 2 = 1 THEN members[(i + 1) \div 2] ELSE Tok("comma")]
    \o <<Tok("rbrace")>>

\* The members of a response: a value of Undefined leaves the member out.
MembersOf(exact, vector, bias) ==
    SelectSeq(<<Member("exact_search", exact), Member("vector_search", vector),
                Member("recency_bias", bias)>>,
              LAMBDA m : m.v # Undefined)

Wrapped(toks, how) ==
    CASE how = "fenced" -> <<Tok("fence")>> \o toks \o <<Tok("fence")>>
      [] how = "prose" -> <<Tok("text")>> \o toks \o <<Tok("text")>>
      [] how = "trailingComma" ->
            SubSeq(toks, 1, Len(toks) - 1) \o <<Tok("comma"), Tok("rbrace")>>
      [] OTHER -> toks

OptObjects ==
    {Wrapped(ObjectText(MembersOf(exact, vector, bias)), how) :
        exact \in {Undefined, Str(<<"a">>), Str(<<>>), Num(Q(42, 1)), Null},
        vector \in {Undefined, Str(S_ab), Null},
        bias \in {Undefined, Num(One), Num(Zero), Null},
        how \in {"plain", "fenced", "prose", "trailingComma"}}

OptCompletions ==
    {ProviderError}
    \cup {Completion(toks) : toks \in SeqsUpTo(OptTokens, MaxTokens) \cup OptObjects}

OptInit ==
    /\ ParseIdle /\ SchedIdle /\ ChunkIdle
    /\ SearchIdle /\ FuseIdle /\ RerankIdle /\ CtlIdle
    /\ FuzzyIdle /\ RecencyIdle /\ IndexIdle /\ TwiceIdle /\ PairIdle
    /\ optQuery \in {Str(S_ab), Str(<<"a">>)}
    /\ optCompletion \in OptCompletions
    /\ optResult = Pending

\* The call optimizeQuery(searchQuery).
OptimizeAlone ==
    /\ optResult = Pending
    /\ optResult' = OptimizeQuery(optQuery, optCompletion)
    /\ UNCHANGED <<optQuery, optCompletion, searchVars, fzVars, rcVars, ixVars, twVars, prVars, pjVars, scVars, ckVars, fuseVars, rrVars, ctlVars>>

OptNext == OptimizeAlone

SpecOpt == OptInit /\ [][OptNext]_vars

RequiredFields == {"exact_search", "vector_search", "recency_bias"}

\* The parsed response has no member of that name.
FieldMissing(parsed, field) ==
    ~\E i \in 1..Len(parsed.members) : parsed.members[i].k = field

\* The failures the claim lists: provider error, empty response, malformed JSON,
\* a required field missing.
OptFailure ==
    \/ optCompletion.failed
    \/ optCompletion.content = <<>>
    \/ ~CleanAndParseJson(optCompletion.content).ok
    \/ \E field \in RequiredFields :
          FieldMissing(CleanAndParseJson(optCompletion.content), field)

\* C10: optimizeQuery never throws, and on a provider error, an empty response,
\* malformed JSON or a missing exact_search / vector_search / recency_bias field
\* it returns exactly {exactSearch: rawQuery, vectorSearch: rawQuery,
\* recencyBias: 0.5}.
C10_OptimizerFailsSoft ==
    optResult # Pending =>
        /\ ~optResult.threw
        /\ OptFailure => optResult = OptimizerFallback(optQuery)

\* A response that parses and carries both queries but no recency_bias was
\* answered with the fallback.
C10_Witness ==
    /\ optResult # Pending
    /\ ~optCompletion.failed
    /\ CleanAndParseJson(optCompletion.content).ok
    /\ ~FieldMissing(CleanAndParseJson(optCompletion.content), "exact_search")
    /\ ~FieldMissing(CleanAndParseJson(optCompletion.content), "vector_search")
    /\ FieldMissing(CleanAndParseJson(optCompletion.content), "recency_bias")
    /\ optResult = OptimizerFallback(optQuery)
    /\ optResult.exactSearch # Str(<<"a">>)

----------------------------------------------------------------------------
(* rerankResults on its own (specification SpecRerank) *)

\* rerankResults is handed at most MaxDocs candidates.
MaxDocs == 2

\* Candidates as rerankResults reads them: docId, title and content, the content
\* possibly missing.
RerankableDocuments ==
    {[docId |-> id, title |-> Str(S_ab), content |-> c] :
        id \in {"d1", "d2", "d3"}, c \in {Str(S_ba), Undefined}}
DocumentLists ==
    {ds \in SeqsUpTo(RerankableDocuments, MaxDocs) :
        \A i, j \in 1..Len(ds) : i # j => ds[i].docId # ds[j].docId}

\* The members of a reranker response: a value of Undefined leaves the entry out.
ScoreMembers(v1, v2) ==
    SelectSeq(<<Member("d1", v1), Member("d2", v2)>>, LAMBDA m : m.v # Undefined)

RerankObjects ==
    {Wrapped(ObjectText(ScoreMembers(v1, v2)), how) :
        v1 \in {Undefined, Num(Q(9, 10)), Num(Q(3, 1)), Num(Q(0 - 1, 1)), Null,
                Str(<<"a">>), JsTrue},
        v2 \in {Undefined, Num(Q(1, 10)), Null},
        how \in {"plain", "fenced", "trailingComma"}}

RerankCompletionsAlone ==
    {ProviderError, Completion(<<>>), Completion(<<Tok("text")>>),
     Completion(<<Literal(Null)>>), Completion(<<Literal(Num(One))>>)}
    \cup {Completion(toks) : toks \in RerankObjects}

RerankInit ==
    /\ ParseIdle /\ SchedIdle /\ ChunkIdle
    /\ SearchIdle /\ FuseIdle /\ OptIdle /\ CtlIdle
    /\ FuzzyIdle /\ RecencyIdle /\ IndexIdle /\ TwiceIdle /\ PairIdle
    /\ rrDocuments \in DocumentLists
    /\ rrCompletion \in RerankCompletionsAlone
    /\ rrResult = Pending

\* The call rerankResults(query, documents).
RerankAlone ==
    /\ rrResult = Pending
    /\ rrResult' = RerankResults(rrDocuments, rrCompletion)
    /\ UNCHANGED <<rrDocuments, rrCompletion, searchVars, fzVars, rcVars, ixVars, twVars, prVars, pjVars, scVars, ckVars, fuseVars, optVars, ctlVars>>

RerankNext == RerankAlone

SpecRerank == RerankInit /\ [][RerankNext]_vars

\* The call failed: a candidate without content, a provider error, an empty or
\* an unparseable response.
RerankFailure ==
    \/ \E i \in 1..Len(rrDocuments) : rrDocuments[i].content = Undefined
    \/ rrCompletion.failed
    \/ rrCompletion.content = <<>>
    \/ ~CleanAndParseJson(rrCompletion.content).ok

\* The ids the response gives a number.
NumericEntries ==
    LET parsed == CleanAndParseJson(rrCompletion.content)
    IN  {parsed.members[i].k :
            i \in {j \in 1..Len(parsed.members) : parsed.members[j].v.ty = "number"}}

\* C9: rerankResults never throws; on success every value of the returned map
\* lies in [0, 1] and the map has no entry for an id whose returned value is no
\* number; on any failure the map gives every input candidate exactly 0.5.
C9_RerankerFailsSoft ==
    rrResult # Pending =>
        /\ ~rrResult.threw
        /\ RerankFailure =>
               rrResult.scores = [id \in {rrDocuments[i].docId : i \in 1..Len(rrDocuments)}
                                     |-> Half]
        /\ ~RerankFailure =>
               /\ \A id \in DOMAIN rrResult.scores :
                     RLe(Zero, rrResult.scores[id]) /\ RLe(rrResult.scores[id], One)
               /\ DOMAIN rrResult.scores \subseteq NumericEntries

----------------------------------------------------------------------------
(* searchController.ts: several requests in one process (specification SpecCtl) *)

\* The requests in flight together.
NumRequests == 2

Services == {"doc", "url"}
Requests == 1..NumRequests

CtlInit ==
    /\ ParseIdle /\ SchedIdle /\ ChunkIdle
    /\ SearchIdle /\ FuseIdle /\ OptIdle /\ RerankIdle
    /\ FuzzyIdle /\ RecencyIdle /\ IndexIdle /\ TwiceIdle /\ PairIdle
    /\ reqs \in [Requests -> [variant : Services, hasQuery : BOOLEAN, pc : {"handler"},
                               status : {0}, cleanupThrew : {FALSE}]]
    /\ clients = [v \in Services |-> FALSE]

\* The response is sent and the finally block runs cleanup(): disconnect() on the
\* client of the module's service object, which rejects if that client is closed.
Finish(r, status) ==
    /\ reqs' = [reqs EXCEPT ![r].pc = "done", ![r].status = status,
                            ![r].cleanupThrew = ~clients[reqs[r].variant]]
    /\ clients' = [clients EXCEPT ![reqs[r].variant] = FALSE]

\* Lines 9-36 (72-95): a body without a query is answered 400; otherwise
\* initialize() connects the service's client.  connect() on a client that is
\* open already rejects in node-redis ("Socket already opened"); a client that
\* lets the second connect pass is explored as well.
ReqHandle(r) ==
    /\ reqs[r].pc = "handler"
    /\ IF ~reqs[r].hasQuery THEN Finish(r, 400)
       ELSE IF clients[reqs[r].variant]
       THEN \/ Finish(r, 500)
            \/ reqs' = [reqs EXCEPT ![r].pc = "embed"] /\ UNCHANGED clients
       ELSE /\ clients' = [clients EXCEPT ![reqs[r].variant] = TRUE]
            /\ reqs' = [reqs EXCEPT ![r].pc = "embed"]
    /\ UNCHANGED <<searchVars, fzVars, rcVars, ixVars, twVars, prVars, pjVars, scVars, ckVars, fuseVars, optVars, rrVars>>

\* Line 94 (52): the embedding call does not touch the client.
ReqEmbed(r) ==
    /\ reqs[r].pc = "embed"
    /\ reqs' = [reqs EXCEPT ![r].pc = "docsQuery"]
    /\ UNCHANGED <<clients, searchVars, fzVars, rcVars, ixVars, twVars, prVars, pjVars, scVars, ckVars, fuseVars, optVars, rrVars>>

\* Lines 129-138 (59-68): ft.search on a closed client rejects; search rethrows
\* and the handler answers 500.
ReqDocsQuery(r) ==
    /\ reqs[r].pc = "docsQuery"
    /\ IF clients[reqs[r].variant]
       THEN reqs' = [reqs EXCEPT ![r].pc = "chunksQuery"] /\ UNCHANGED clients
       ELSE Finish(r, 500)
    /\ UNCHANGED <<searchVars, fzVars, rcVars, ixVars, twVars, prVars, pjVars, scVars, ckVars, fuseVars, optVars, rrVars>>

\* Lines 144-153 (74-83) to the end of the handler: the second query, then the
\* list is answered 200.
ReqChunksQuery(r) ==
    /\ reqs[r].pc = "chunksQuery"
    /\ IF clients[reqs[r].variant] THEN Finish(r, 200) ELSE Finish(r, 500)
    /\ UNCHANGED <<searchVars, fzVars, rcVars, ixVars, twVars, prVars, pjVars, scVars, ckVars, fuseVars, optVars, rrVars>>

CtlNext ==
    \E r \in Requests :
        \/ ReqHandle(r)
        \/ ReqEmbed(r)
        \/ ReqDocsQuery(r)
        \/ ReqChunksQuery(r)

SpecCtl == CtlInit /\ [][CtlNext]_vars

\* What a request is answered when it runs alone against healthy providers.
SoloStatus(req) == IF req.hasQuery THEN 200 ELSE 400

\* C6: in every interleaving of the requests each request is answered as it is
\* when it runs alone; none fails because another one connected, queried or
\* cleaned up meanwhile.
C6_RequestsIndependent ==
    \A r \in Requests : reqs[r].pc = "done" => reqs[r].status = SoloStatus(reqs[r])

----------------------------------------------------------------------------
(* calculateFuzzyScore on its own (specification SpecFuzzy) *)

\* Texts and queries are the strings of at most MaxChars characters.
MaxChars == 3

FuzzyAlphabet == {"a", "b", "A", " "}
FuzzyStrings == SeqsUpTo(FuzzyAlphabet, MaxChars)

FuzzyInit ==
    /\ ParseIdle /\ SchedIdle /\ ChunkIdle
    /\ SearchIdle /\ FuseIdle /\ OptIdle /\ RerankIdle /\ CtlIdle
    /\ RecencyIdle /\ IndexIdle /\ TwiceIdle /\ PairIdle
    /\ fzText \in {Str(cs) : cs \in FuzzyStrings}
    /\ fzQuery \in {Str(cs) : cs \in FuzzyStrings}
    /\ fzResult = Pending

\* The call calculateFuzzyScore(text, query).
FuzzyScore ==
    /\ fzResult = Pending
    /\ fzResult' = CalculateFuzzyScore(fzText, fzQuery)
    /\ UNCHANGED <<fzText, fzQuery, searchVars, fuseVars, optVars, rrVars, ctlVars,
                   rcVars, ixVars, twVars, prVars, pjVars, scVars, ckVars>>

FuzzyNext == FuzzyScore

SpecFuzzy == FuzzyInit /\ [][FuzzyNext]_vars

\* The query equals the text, or occurs in it, ignoring case.
EqualIgnoringCase(text, query) == ToLowerCase(query.s) = ToLowerCase(text.s)
ContainsIgnoringCase(text, query) == Includes(ToLowerCase(text.s), ToLowerCase(query.s))

\* C12: calculateFuzzyScore returns a value in [0, 1]; exactly 1.0 when the
\* non-empty query equals the text ignoring case; at most 0.7 when the query is
\* neither equal to the text nor a substring of it, whatever the boost.
C12_FuzzyScoreRange ==
    fzResult # Pending =>
        /\ IsNum(fzResult)
        /\ RLe(Zero, fzResult.n) /\ RLe(fzResult.n, One)
        /\ (fzQuery.s # <<>> /\ EqualIgnoringCase(fzText, fzQuery)) => fzResult = Num(One)
        /\ ~ContainsIgnoringCase(fzText, fzQuery) => RLe(fzResult.n, Q(7, 10))

\* Two query words found next to each other in a text that does not contain
\* the query: word score and boost exceed the cap, the result is the cap.
C12_Witness ==
    /\ fzResult = Num(Q(7, 10))
    /\ ~ContainsIgnoringCase(fzText, fzQuery)
    /\ Len(Unique(SplitWords(ToLowerCase(fzQuery.s)))) = 2

\* The best score, for each query, among the texts that do not contain it: the
\* texts that at most share words with the query (lines 28-79).
TokenOnlyScores(query0) ==
    {FuzzyOnStrings(t, query0) :
        t \in {u \in FuzzyStrings : ~Includes(ToLowerCase(u), ToLowerCase(query0))}}

RMaxOf(S) == IF S = {} THEN Zero ELSE CHOOSE x \in S : \A y \in S : RLe(y, x)

TokenOnlyBest == [q \in FuzzyStrings |-> RMaxOf(TokenOnlyScores(q))]

\* min(1.0, 0.8 + 0.2 * len(query) / len(text)) of line 24.
ContainedScore(text, query) ==
    RMin(One, RAdd(Q(8, 10), RMul(Q(2, 10), Q(Len(query.s), Len(text.s)))))

\* C13 as stated: for a fixed query, every text that equals or contains the
\* query ignoring case scores at least 0.8, namely
\* min(1.0, 0.8 + 0.2 * len(query)/len(text)), and so strictly more than every
\* text that only shares words with the query.
C13_ContainedOutranksTokens ==
    (fzResult # Pending /\ ContainsIgnoringCase(fzText, fzQuery)) =>
        /\ IsNum(fzResult)
        /\ RLe(Q(8, 10), fzResult.n)
        /\ fzResult.n = ContainedScore(fzText, fzQuery)
        /\ RLt(TokenOnlyBest[fzQuery.s], fzResult.n)

\* C13 amended: the same, for a non-empty query. (Every text contains the
\* empty query, and lines 9-10 return 0 for it.)
C13_NonEmptyContainedOutranksTokens ==
    (fzResult # Pending /\ fzQuery.s # <<>> /\ ContainsIgnoringCase(fzText, fzQuery)) =>
        /\ IsNum(fzResult)
        /\ RLe(Q(8, 10), fzResult.n)
        /\ fzResult.n = ContainedScore(fzText, fzQuery)
        /\ RLt(TokenOnlyBest[fzQuery.s], fzResult.n)

\* A text that contains a two-word query, while another text reaches the cap
\* of 0.7 with the same words in another order.
C13_Witness ==
    /\ fzResult # Pending
    /\ fzQuery.s # <<>>
    /\ ContainsIgnoringCase(fzText, fzQuery)
    /\ TokenOnlyBest[fzQuery.s] = Q(7, 10)
    /\ RLe(Q(8, 10), fzResult.n)

----------------------------------------------------------------------------
(* calculateRecencyScore on its own (specification SpecRecency) *)

\* Distances in days between the publication and the current instant; a
\* negative distance is a publication date in the future.
RecencyDays == {-400, -365, -100, -1, 0, 1, 100, 365, 400}

RecencyInstants == {NowTick - d * TicksPerDay : d \in RecencyDays} \cup {0}

\* The timestamp in the three representations the signature accepts, the
\* absent timestamp, and what cannot be parsed as a date.
RecencyDates ==
    {DateAt(t) : t \in RecencyInstants}
    \cup {Num(Q(t, 1)) : t \in RecencyInstants}
    \cup {Str(<<"0">>), Str(<<"7", "0", "0">>), Str(<<"8", "0", "0">>), Str(<<"9", "0", "0">>)}
    \cup {Null, Undefined, Str(<<>>), Str(<<"a">>), Str(<<"a", "b">>), InvalidDate}

RecencyBiases == {Num(Zero), Num(Q(1, 10)), Num(Half), Num(One)}

RecencyInit ==
    /\ ParseIdle /\ SchedIdle /\ ChunkIdle
    /\ SearchIdle /\ FuseIdle /\ OptIdle /\ RerankIdle /\ CtlIdle
    /\ FuzzyIdle /\ IndexIdle /\ TwiceIdle /\ PairIdle
    /\ rcDate \in RecencyDates
    /\ rcBias \in RecencyBiases
    /\ rcNow \in {NowTick, NowTick + 1}
    /\ rcResult = Pending

\* The call calculateRecencyScore(publishedDate, recencyBias), Date.now() being rcNow.
RecencyScore ==
    /\ rcResult = Pending
    /\ rcResult' = CalculateRecencyScore(rcDate, rcBias, rcNow)
    /\ UNCHANGED <<rcDate, rcBias, rcNow, searchVars, fuseVars, optVars, rrVars, ctlVars,
                   fzVars, ixVars, twVars, prVars, pjVars, scVars, ckVars>>

RecencyNext == RecencyScore

SpecRecency == RecencyInit /\ [][RecencyNext]_vars

\* The argument is a timestamp: a Date, a number, or a string that parses.
IsTimestamp(v) ==
    \/ v.ty = "date"
    \/ v.ty = "number"
    \/ v.ty = "string" /\ IsDateString(v.s)

\* The argument is absent.
IsAbsent(v) == v = Null \/ v = Undefined

\* The argument cannot be parsed as a date.
IsUnparseable(v) ==
    \/ v.ty = "invaliddate"
    \/ v.ty = "string" /\ v.s # <<>> /\ ~IsDateString(v.s)

\* C14: calculateRecencyScore(t, 0) returns exactly 1.0 for every timestamp t,
\* past or future, given as a Date, a string or a number.
C14_ZeroBiasGivesOne ==
    (rcResult # Pending /\ rcBias = Num(Zero) /\ IsTimestamp(rcDate)) =>
        rcResult = Num(One)

\* C15: for every timestamp, earlier or later than the current time, and every
\* bias in [0, 1], calculateRecencyScore returns a value in (0, 1].
C15_RecencyScoreRange ==
    (rcResult # Pending /\ IsTimestamp(rcDate)) =>
        /\ IsNum(rcResult)
        /\ RLt(Zero, rcResult.n)
        /\ RLe(rcResult.n, One)

\* C16: calculateRecencyScore returns exactly 0.5 when the timestamp is absent
\* and when it cannot be parsed as a date (an invalid date string or an Invalid
\* Date value); it never returns NaN then.
C16_AbsentOrUnparseableGivesHalf ==
    (rcResult # Pending /\ (IsAbsent(rcDate) \/ IsUnparseable(rcDate))) =>
        rcResult = Num(Half)

----------------------------------------------------------------------------
(* DocumentSearchService.search run twice on the same inputs and the same
   mocked responses (specification SpecTwice) *)

\* Lines 64-91: the queries and the recency bias after the optimizer step.
ParamsFrom(b, optimizedParams) ==
    IF b.aiEnhanced /\ ~optimizedParams.threw
    THEN [exactQuery |-> optimizedParams.exactSearch,
          recencyBias |-> optimizedParams.recencyBias]
    ELSE [exactQuery |-> JsOr(b.fuzzyValue, b.query), recencyBias |-> Num(Half)]
ParamsOf(b, completion) == ParamsFrom(b, OptimizeQuery(b.query, completion))

\* Lines 175-211: the candidates of one run whose Date.now() reads t.
BuiltWith(in, p, t) ==
    [i \in 1..Len(in.hits) |->
        DocCandidate(in.hits[i], AvgChunkScores(in.chunks), p.exactQuery, p.recencyBias, t)]
BuiltAt(in, t) == BuiltWith(in, ParamsOf(in.body, in.optimizer), t)

\* Lines 214-229: the rerank scores of one run.
RerankedWith(b, built, reranked) ==
    IF b.useLlmReranking /\ Len(built) > 0 /\ ~reranked.threw
    THEN [i \in 1..Len(built) |-> WithRerankScore(built[i], reranked.scores)]
    ELSE built
RerankedOf(in, built) == RerankedWith(in.body, built, RerankResults(built, in.reranker))

\* Lines 231-266: the weighted scores of one run.
WeightedOf(docs, weights) == [i \in 1..Len(docs) |-> WithWeightedScore(docs[i], weights)]
ScoredAt(in, t) == WeightedOf(RerankedOf(in, BuiltAt(in, t)), in.body.weights)

ThrowsAt(in, t) == \E i \in 1..Len(in.hits) : BuiltAt(in, t)[i].threw

\* Mutant of EngineSort: the sort may leave the candidates in any order.
EngineSortAnyOrder(scored, before, beforeOut) == OrdersOf(scored)

\* Line 269 in a second run: the engine's sort is a function of the array it
\* is given, so the array of the earlier run is left in the earlier order.
EngineSort(scored, before, beforeOut) ==
    IF scored = before THEN {beforeOut} ELSE SortedOutputs(scored)

TwiceBodies ==
    {BodyOf(Str(S_ab), Undefined, ai, rr, DefaultDocWeights) : ai \in BOOLEAN, rr \in BOOLEAN}
    \cup {BodyOf(Str(S_ab), Str(<<"a">>), FALSE, FALSE, DefaultDocWeights)}

TwiceOptimizerCompletions ==
    { ProviderError,
      Completion(<<Tok("lbrace"), Member("exact_search", Str(<<"a">>)), Tok("comma"),
                   Member("vector_search", Str(S_ab)), Tok("comma"),
                   Member("recency_bias", Num(One)), Tok("rbrace")>>),
      Completion(<<Tok("lbrace"), Member("exact_search", Str(<<"a">>)), Tok("comma"),
                   Member("vector_search", Str(S_ab)), Tok("comma"),
                   Member("recency_bias", Str(<<"a">>)), Tok("rbrace")>>),
      Completion(<<Tok("lbrace"), Member("exact_search", Num(Q(42, 1))), Tok("comma"),
                   Member("vector_search", Str(S_ab)), Tok("comma"),
                   Member("recency_bias", Num(Half)), Tok("rbrace")>>) }

TwiceChunkLists ==
    { <<>>,
      <<[parent_id |-> "d3", score |-> Num(Q(1, 5))]>>,
      <<[parent_id |-> "d1", score |-> Num(Zero)], [parent_id |-> "d1", score |-> Num(Q(1, 5))]>> }

\* The instants Date.now() may read at a run: the same tick, a tick later on
\* the same day, a hundred days later.
TwiceInstants == {NowTick, NowTick + 1, NowTick + 100 * TicksPerDay}

TwiceInputs ==
    {[body |-> b, optimizer |-> o, hits |-> h, chunks |-> c, reranker |-> r] :
        b \in TwiceBodies, o \in TwiceOptimizerCompletions, h \in HitLists,
        c \in TwiceChunkLists, r \in RerankerCompletions}

TwiceInit ==
    /\ ParseIdle /\ SchedIdle /\ ChunkIdle
    /\ SearchIdle /\ FuseIdle /\ OptIdle /\ RerankIdle /\ CtlIdle
    /\ FuzzyIdle /\ RecencyIdle /\ IndexIdle /\ PairIdle
    /\ twInput \in {in \in TwiceInputs :
                        /\ (~in.body.aiEnhanced => in.optimizer = ProviderError)
                        /\ (~in.body.useLlmReranking => in.reranker = ProviderError)}
    /\ twNow \in {<<NowTick, t>> : t \in TwiceInstants}
    /\ twRuns = <<>>

\* The lists a run at instant t may return, runs being the earlier runs.
TwiceOutputs(in, t, first, runs) ==
    IF Len(runs) = 0 THEN SortedOutputs(ScoredAt(in, t))
    ELSE EngineSort(ScoredAt(in, t), ScoredAt(in, first), runs[1].results)

\* One call of search(query, fuzzyValue, options) on twInput.
TwiceRun ==
    /\ Len(twRuns) < 2
    /\ IF ThrowsAt(twInput, twNow[Len(twRuns) + 1])
       THEN twRuns' = Append(twRuns, [threw |-> TRUE, results |-> <<>>])
       ELSE \E out \in TwiceOutputs(twInput, twNow[Len(twRuns) + 1], twNow[1], twRuns) :
                twRuns' = Append(twRuns, [threw |-> FALSE, results |-> out])
    /\ UNCHANGED <<twInput, twNow, searchVars, fuseVars, optVars, rrVars, ctlVars,
                   fzVars, rcVars, ixVars, prVars, pjVars, scVars, ckVars>>

TwiceNext == TwiceRun

SpecTwice == TwiceInit /\ [][TwiceNext]_vars

----------------------------------------------------------------------------
(* The ranking of two candidates under the default weights (specification
   SpecPair) *)

PairFuzzyScores == {Zero, Q(1, 10), Q(9, 10)}
PairTitleScores == {Zero, Q(1, 20), Q(1, 5)}
PairChunkScores == {Zero, Q(1, 20), Q(3, 10)}
PairRecencyScores == {Half, One}

\* The candidate lines 196-210 push for a hit with the given signals.
PairCandidate(id, fuzzy, title, chunk, recency) ==
    MakeDocCandidate([doc_id |-> id, title |-> Str(S_ab), content |-> Str(S_ba),
                      publishedDate |-> Num(Q(NowTick, 1)),
                      title_vector_score |-> Num(title)],
                     DateAt(NowTick), Num(chunk), Num(fuzzy), Num(recency))

PairCandidates(id) ==
    {PairCandidate(id, f, t, c, r) :
        f \in PairFuzzyScores, t \in PairTitleScores, c \in PairChunkScores,
        r \in PairRecencyScores}

PairInit ==
    /\ ParseIdle /\ SchedIdle /\ ChunkIdle
    /\ SearchIdle /\ FuseIdle /\ OptIdle /\ RerankIdle /\ CtlIdle
    /\ FuzzyIdle /\ RecencyIdle /\ IndexIdle /\ TwiceIdle
    /\ prDocs \in {<<x, y>> : x \in PairCandidates("A"), y \in PairCandidates("B")}
                  \cup {<<y, x>> : x \in PairCandidates("A"), y \in PairCandidates("B")}
    /\ prOut = <<>>

\* Lines 231-271 under the default weights of lines 65-70.
PairRank ==
    /\ prOut = <<>>
    /\ prOut' \in SortedOutputs(WeightedOf(prDocs, DefaultDocWeights))
    /\ UNCHANGED <<prDocs, searchVars, fuseVars, optVars, rrVars, ctlVars,
                   fzVars, rcVars, ixVars, twVars, pjVars, scVars, ckVars>>

PairNext == PairRank

SpecPair == PairInit /\ [][PairNext]_vars

\* a is at least b in fuzzy, title-vector and chunk-vector score, and strictly
\* greater in one of them.
Dominates(a, b) ==
    /\ RLe(b.fuzzyScore.n, a.fuzzyScore.n)
    /\ RLe(b.titleVectorScore.n, a.titleVectorScore.n)
    /\ RLe(b.avgChunkScore.n, a.avgChunkScore.n)
    /\ \/ RLt(b.fuzzyScore.n, a.fuzzyScore.n)
       \/ RLt(b.titleVectorScore.n, a.titleVectorScore.n)
       \/ RLt(b.avgChunkScore.n, a.avgChunkScore.n)

PositionOf(id, docs) == CHOOSE i \in 1..Len(docs) : docs[i].docId = id

\* C19: with the default weights and equal recency scores, a candidate that is
\* at least the other in fuzzy, title-vector and chunk-vector score and
\* strictly greater in one of them is placed before it in the returned list.
C19_DominantCandidateFirst ==
    prOut # <<>> =>
        \A i, j \in 1..Len(prDocs) :
            (/\ prDocs[i].recencyScore = prDocs[j].recencyScore
             /\ Dominates(prDocs[i], prDocs[j]))
                => PositionOf(prDocs[i].docId, prOut) < PositionOf(prDocs[j].docId, prOut)

\* A = 0.9/0.2/0.3 and B = 0.1/0.05/0.05 with equal recency, B built first, A
\* returned first.
C19_Witness ==
    /\ prOut # <<>>
    /\ prDocs[1] = PairCandidate("B", Q(1, 10), Q(1, 20), Q(1, 20), Half)
    /\ prDocs[2] = PairCandidate("A", Q(9, 10), Q(1, 5), Q(3, 10), Half)
    /\ prOut[1].docId = "A"
    /\ prOut[2].docId = "B"

----------------------------------------------------------------------------
(* DocumentIndexer.indexDocuments and UrlIndexer.indexUrls (specification
   SpecIndex) *)

\* A batch holds at most MaxItems items; chunkText splits the content of a
\* document into at most MaxChunks chunks.
MaxItems == 2
MaxChunks == 2

\* What find().limit(limit) may return: item i of a batch is the document with
\* _id i; chunks is the number of chunks of its content (0 for a URL).
IndexBatches(kind) ==
    IF kind = "doc"
    THEN UNION {[1..n -> [chunks : 0..MaxChunks]] : n \in 0..MaxItems}
    ELSE {[i \in 1..n |-> [chunks |-> 0]] : n \in 0..MaxItems}

IndexInit ==
    /\ ParseIdle /\ SchedIdle /\ ChunkIdle
    /\ SearchIdle /\ FuseIdle /\ OptIdle /\ RerankIdle /\ CtlIdle
    /\ FuzzyIdle /\ RecencyIdle /\ TwiceIdle /\ PairIdle
    /\ ixKind \in {"doc", "url"}
    /\ ixBatch \in IndexBatches(ixKind)
    /\ ixAt = [item |-> 0, step |-> "find", chunk |-> 0]
    /\ ixCount = 0
    /\ ixStore = {}
    /\ ixFailed = {}
    /\ ixReturned = Pending

IndexAt(i, step, chunk) == [item |-> i, step |-> step, chunk |-> chunk]

\* The loop head: the first step of item i, or the return after the last item.
ItemStart(i) ==
    IF i <= Len(ixBatch)
    THEN IndexAt(i, IF ixKind = "doc" THEN "embedTitle" ELSE "embedUrl", 0)
    ELSE IndexAt(Len(ixBatch), "return", 0)

\* Mutant of AfterFailure: the first failure ends the loop.
AfterFailureBreak(i) == IndexAt(Len(ixBatch), "return", 0)

\* The continue of the per-item catch (lines 331-334, 241-244).
AfterFailure(i) == ItemStart(i + 1)

\* The per-item catch: the item is logged, the loop goes on.
ItemFails ==
    /\ ixFailed' = ixFailed \cup {ixAt.item}
    /\ ixAt' = AfterFailure(ixAt.item)
    /\ UNCHANGED <<ixCount, ixStore>>

\* indexedCount++ at the end of the try block.
ItemCompletes ==
    /\ ixCount' = ixCount + 1
    /\ ixAt' = ItemStart(ixAt.item + 1)
    /\ UNCHANGED ixFailed

IndexFrame ==
    UNCHANGED <<ixKind, ixBatch, searchVars, fuseVars, optVars, rrVars, ctlVars,
                fzVars, rcVars, twVars, prVars, pjVars, scVars, ckVars>>

\* Lines 291 (220): the batch is read; a rejection is rethrown by the outer catch.
IxFind ==
    /\ ixAt.step = "find"
    /\ \E ok \in BOOLEAN :
          IF ok
          THEN ixAt' = ItemStart(1) /\ UNCHANGED ixReturned
          ELSE ixAt' = IndexAt(0, "done", 0) /\ ixReturned' = [threw |-> TRUE, count |-> 0]
    /\ UNCHANGED <<ixCount, ixStore, ixFailed>>
    /\ IndexFrame

\* Lines 299, 317 (227-228): one call of embedder.embedText.
IxEmbed ==
    /\ ixAt.step \in {"embedTitle", "embedChunk", "embedUrl", "embedUrlTitle"}
    /\ \E ok \in BOOLEAN :
          IF ok
          THEN /\ ixAt' = [ixAt EXCEPT !.step =
                              CASE ixAt.step = "embedTitle" -> "insertDocument"
                                [] ixAt.step = "embedChunk" -> "insertChunk"
                                [] ixAt.step = "embedUrl" -> "embedUrlTitle"
                                [] OTHER -> "insertUrlDocument"]
               /\ UNCHANGED <<ixCount, ixStore, ixFailed>>
          ELSE ItemFails
    /\ UNCHANGED ixReturned
    /\ IndexFrame

\* Lines 302-313: insertDocument, then chunkText.
IxInsertDocument ==
    /\ ixAt.step = "insertDocument"
    /\ \E ok \in BOOLEAN :
          IF ok
          THEN /\ ixStore' = ixStore \cup {[entry |-> "doc", id |-> ixAt.item, index |-> 0]}
               /\ IF ixBatch[ixAt.item].chunks = 0
                  THEN ItemCompletes
                  ELSE /\ ixAt' = IndexAt(ixAt.item, "embedChunk", 0)
                       /\ UNCHANGED <<ixCount, ixFailed>>
          ELSE ItemFails
    /\ UNCHANGED ixReturned
    /\ IndexFrame

\* Lines 319-325: insertChunk for chunk i, then the next chunk or the end of the try block.
IxInsertChunk ==
    /\ ixAt.step = "insertChunk"
    /\ \E ok \in BOOLEAN :
          IF ok
          THEN /\ ixStore' = ixStore \cup
                                {[entry |-> "chunk", id |-> ixAt.item, index |-> ixAt.chunk]}
               /\ IF ixAt.chunk + 1 < ixBatch[ixAt.item].chunks
                  THEN /\ ixAt' = IndexAt(ixAt.item, "embedChunk", ixAt.chunk + 1)
                       /\ UNCHANGED <<ixCount, ixFailed>>
                  ELSE ItemCompletes
          ELSE ItemFails
    /\ UNCHANGED ixReturned
    /\ IndexFrame

\* Lines 231-237 of UrlIndexer: insertUrlDocument.
IxInsertUrlDocument ==
    /\ ixAt.step = "insertUrlDocument"
    /\ \E ok \in BOOLEAN :
          IF ok
          THEN /\ ixStore' = ixStore \cup {[entry |-> "url", id |-> ixAt.item, index |-> 0]}
               /\ ItemCompletes
          ELSE ItemFails
    /\ UNCHANGED ixReturned
    /\ IndexFrame

\* Line 337 (248): return indexedCount.
IxReturn ==
    /\ ixAt.step = "return"
    /\ ixReturned' = [threw |-> FALSE, count |-> ixCount]
    /\ ixAt' = IndexAt(0, "done", 0)
    /\ UNCHANGED <<ixCount, ixStore, ixFailed>>
    /\ IndexFrame

IndexNext ==
    \/ IxFind
    \/ IxEmbed
    \/ IxInsertDocument
    \/ IxInsertChunk
    \/ IxInsertUrlDocument
    \/ IxReturn

SpecIndex == IndexInit /\ [][IndexNext]_vars

\* The entries a completed item has written.
EntriesOf(i) ==
    IF ixKind = "doc"
    THEN {[entry |-> "doc", id |-> i, index |-> 0]}
         \cup {[entry |-> "chunk", id |-> i, index |-> c] : c \in 0..(ixBatch[i].chunks - 1)}
    ELSE {[entry |-> "url", id |-> i, index |-> 0]}

\* C20: in indexDocuments and indexUrls a failure while one item is processed
\* (an embedding or an insert error) is caught: the call does not throw, every
\* other item of the batch is still processed to its end or to its own
\* failure, and the count returned is the number of items that completed
\* without error.
C20_ItemFailureIsContained ==
    ixReturned # Pending =>
        /\ ixFailed # {} => ~ixReturned.threw
        /\ ~ixReturned.threw =>
              /\ \A i \in 1..Len(ixBatch) : i \in ixFailed \/ EntriesOf(i) \subseteq ixStore
              /\ ixReturned.count = Cardinality((1..Len(ixBatch)) \ ixFailed)

\* A document batch whose first item failed at a chunk and whose second item
\* was indexed completely: the count returned is 1.
C20_Witness ==
    /\ ixReturned # Pending
    /\ ixKind = "doc"
    /\ Len(ixBatch) = 2
    /\ ixFailed = {1}
    /\ [entry |-> "doc", id |-> 1, index |-> 0] \in ixStore
    /\ ixBatch[2].chunks > 0
    /\ EntriesOf(2) \subseteq ixStore
    /\ ixReturned = [threw |-> FALSE, count |-> 1]

\* C29: in indexDocuments a document whose processing fails, and is therefore
\* not counted, leaves no data of its own in the index: after the batch
\* neither its document entry nor any chunk entry written by that run is
\* present.
C29_FailedDocumentLeavesNothing ==
    (ixReturned # Pending /\ ixKind = "doc") =>
        \A i \in ixFailed : ~\E e \in ixStore : e.id = i

----------------------------------------------------------------------------
(* cleanAndParseJson on its own (specification SpecParse) *)

\* Responses are the token strings of at most MaxParseTokens tokens.
MaxParseTokens == 4

ParseTokens ==
    {Tok("fence"), Tok("lbrace"), Tok("rbrace"), Tok("comma"), Tok("text"),
     Member("a", Num(One))}

ParseInit ==
    /\ SchedIdle /\ ChunkIdle
    /\ SearchIdle /\ FuseIdle /\ OptIdle /\ RerankIdle /\ CtlIdle
    /\ FuzzyIdle /\ RecencyIdle /\ IndexIdle /\ TwiceIdle /\ PairIdle
    /\ pjText \in SeqsUpTo(ParseTokens, MaxParseTokens)
    /\ pjResult = Pending

\* The call cleanAndParseJson(jsonString).
ParseAlone ==
    /\ pjResult = Pending
    /\ pjResult' = CleanAndParseJson(pjText)
    /\ UNCHANGED <<pjText, searchVars, fuseVars, optVars, rrVars, ctlVars, fzVars,
                   rcVars, ixVars, twVars, prVars, scVars, ckVars>>

ParseNext == ParseAlone

SpecParse == ParseInit /\ [][ParseNext]_vars

\* The nesting depth after the first n tokens.
RECURSIVE DepthAfter(_, _)
DepthAfter(toks, n) ==
    IF n = 0 THEN 0
    ELSE DepthAfter(toks, n - 1)
         + (CASE toks[n].t = "lbrace" -> 1 [] toks[n].t = "rbrace" -> -1 [] OTHER -> 0)

\* The first balanced {...} span: from the first "{" to the "}" that closes
\* it; the whole string when there is none.
FirstBalancedSpan(toks) ==
    LET opens == {i \in 1..Len(toks) : toks[i].t = "lbrace"}
    IN  IF opens = {} THEN toks
        ELSE LET first == CHOOSE i \in opens : \A j \in opens : i <= j
                 closing == {j \in first..Len(toks) :
                                DepthAfter(toks, j) = DepthAfter(toks, first - 1)}
             IN  IF closing = {} THEN toks
                 ELSE SubSeq(toks, first, CHOOSE j \in closing : \A k \in closing : j <= k)

\* The parse the claim describes: fences removed, the first balanced span
\* parsed, trailing commas accepted.
ParseOfFirstSpan(toks) ==
    IF JsonParse(FirstBalancedSpan(RemoveFences(toks))).ok
    THEN JsonParse(FirstBalancedSpan(RemoveFences(toks)))
    ELSE JsonParse(RemoveTrailingCommas(FirstBalancedSpan(RemoveFences(toks))))

\* C25: cleanAndParseJson removes code-fence markers, parses the first
\* balanced {...} span of the response, whatever text and brace spans follow
\* it, and accepts trailing commas; a valid object followed by more text with
\* braces parses to that object.
C25_ParsesFirstBalancedSpan ==
    pjResult # Pending => pjResult = ParseOfFirstSpan(pjText)

----------------------------------------------------------------------------
(* app.ts: IndexingScheduler (specification SpecSched) *)

\* The schedule calls made on one scheduler.
MaxSchedules == 4

\* After construction both job fields are null (0) and nothing is scheduled.
SchedInit ==
    /\ ParseIdle /\ ChunkIdle
    /\ SearchIdle /\ FuseIdle /\ OptIdle /\ RerankIdle /\ CtlIdle
    /\ FuzzyIdle /\ RecencyIdle /\ IndexIdle /\ TwiceIdle /\ PairIdle
    /\ scDocumentJob = 0
    /\ scUrlJob = 0
    /\ scActive = {}
    /\ scIssued = 0
    /\ scLast = "idle"

SchedFrame ==
    UNCHANGED <<searchVars, fuseVars, optVars, rrVars, ctlVars, fzVars, rcVars, ixVars,
                twVars, prVars, pjVars, ckVars>>

\* schedule.scheduleJob(cron, callback): a new job, active until cancelled.
ScheduleJob(kind) == [id |-> scIssued + 1, kind |-> kind]

\* scheduleDocumentIndexing: the new job's handle replaces the field's value.
ScheduleDocumentIndexing ==
    /\ scIssued < MaxSchedules
    /\ scActive' = scActive \cup {ScheduleJob("document")}
    /\ scDocumentJob' = scIssued + 1
    /\ scIssued' = scIssued + 1
    /\ scLast' = "scheduleDocumentIndexing"
    /\ UNCHANGED scUrlJob
    /\ SchedFrame

\* scheduleUrlIndexing
ScheduleUrlIndexing ==
    /\ scIssued < MaxSchedules
    /\ scActive' = scActive \cup {ScheduleJob("url")}
    /\ scUrlJob' = scIssued + 1
    /\ scIssued' = scIssued + 1
    /\ scLast' = "scheduleUrlIndexing"
    /\ UNCHANGED scDocumentJob
    /\ SchedFrame

\* Job.cancel() on the job a field holds.
Cancelled(active, job) == {j \in active : j.id # job}

\* cancelDocumentIndexing: cancels the job the field holds, if any.
CancelDocumentIndexing ==
    /\ scActive' = Cancelled(scActive, scDocumentJob)
    /\ scDocumentJob' = 0
    /\ scLast' = "cancelDocumentIndexing"
    /\ UNCHANGED <<scUrlJob, scIssued>>
    /\ SchedFrame

\* cancelUrlIndexing
CancelUrlIndexing ==
    /\ scActive' = Cancelled(scActive, scUrlJob)
    /\ scUrlJob' = 0
    /\ scLast' = "cancelUrlIndexing"
    /\ UNCHANGED <<scDocumentJob, scIssued>>
    /\ SchedFrame

\* cancelAllJobs: cancelDocumentIndexing, then cancelUrlIndexing.
CancelAllJobs ==
    /\ scActive' = Cancelled(Cancelled(scActive, scDocumentJob), scUrlJob)
    /\ scDocumentJob' = 0
    /\ scUrlJob' = 0
    /\ scLast' = "cancelAllJobs"
    /\ UNCHANGED scIssued
    /\ SchedFrame

SchedNext ==
    \/ ScheduleDocumentIndexing
    \/ ScheduleUrlIndexing
    \/ CancelDocumentIndexing
    \/ CancelUrlIndexing
    \/ CancelAllJobs

SpecSched == SchedInit /\ [][SchedNext]_vars

\* C28: after cancelAllJobs returns, no indexing job scheduled through the
\* scheduler remains active, for every preceding sequence of schedule calls,
\* the same kind scheduled more than once included.
C28_CancelAllLeavesNoActiveJob ==
    scLast = "cancelAllJobs" => scActive = {}

----------------------------------------------------------------------------
(* textChunker.ts: TextChunker.chunkText (specification SpecChunk) *)

\* Texts have at most MaxWords words (0 words: the empty text), chunk sizes go
\* up to MaxChunkSize and overlaps up to MaxOverlap.
MaxWords == 4
MaxChunkSize == 3
MaxOverlap == 3

\* ckChunks counts the chunks pushed, up to MaxPushed; the loop's control
\* state is ckI alone.
MaxPushed == 5

\* A chunker built with (chunkSize, overlap) and a call chunkText(text) about
\* to start.
ChunkInit ==
    /\ ParseIdle /\ SchedIdle
    /\ SearchIdle /\ FuseIdle /\ OptIdle /\ RerankIdle /\ CtlIdle
    /\ FuzzyIdle /\ RecencyIdle /\ IndexIdle /\ TwiceIdle /\ PairIdle
    /\ ckWords \in 0..MaxWords
    /\ ckSize \in 1..MaxChunkSize
    /\ ckOverlap \in 0..MaxOverlap
    /\ ckI = 0
    /\ ckChunks = 0
    /\ ckPc = "start"

ChunkFrame ==
    UNCHANGED <<searchVars, fuseVars, optVars, rrVars, ctlVars, fzVars, rcVars, ixVars,
                twVars, prVars, pjVars, scVars>>

\* Lines 11-17: the empty text returns [], any other text is split into
\* words and the loop starts at i = 0.
ChunkTextStart ==
    /\ ckPc = "start"
    /\ ckPc' = IF ckWords = 0 THEN "done" ELSE "loop"
    /\ UNCHANGED <<ckWords, ckSize, ckOverlap, ckI, ckChunks>>
    /\ ChunkFrame

\* The index after lines 24-26, or -1 when line 25 breaks out of the loop.
NextIndex(i, chunkSize, overlap, words) ==
    LET moved == i + (chunkSize - overlap)
    IN  IF moved >= words THEN -1
        ELSE IF moved < 0 THEN 0
        ELSE moved

\* The loop test of line 18: the body runs while i < words.length, otherwise
\* the chunks are returned (line 29).
ChunkLoopTest ==
    /\ ckPc = "loop"
    /\ ckPc' = IF ckI < ckWords THEN "body" ELSE "done"
    /\ UNCHANGED <<ckWords, ckSize, ckOverlap, ckI, ckChunks>>
    /\ ChunkFrame

\* The loop body of lines 19-26: one chunk is pushed and the index moved; the
\* break of line 25 leaves the loop and the chunks are returned.
ChunkLoopBody ==
    /\ ckPc = "body"
    /\ ckChunks' = IF ckChunks < MaxPushed THEN ckChunks + 1 ELSE ckChunks
    /\ IF NextIndex(ckI, ckSize, ckOverlap, ckWords) = -1
       THEN ckPc' = "done" /\ UNCHANGED ckI
       ELSE /\ ckI' = NextIndex(ckI, ckSize, ckOverlap, ckWords)
            /\ ckPc' = "loop"
    /\ UNCHANGED <<ckWords, ckSize, ckOverlap>>
    /\ ChunkFrame

ChunkNext ==
    \/ ChunkTextStart
    \/ ChunkLoopTest
    \/ ChunkLoopBody

\* The call keeps running while it has a statement to execute.
SpecChunk == ChunkInit /\ [][ChunkNext]_vars /\ WF_vars(ChunkNext)

\* C30: chunkText terminates for every input text and every chunkSize and
\* overlap, overlap >= chunkSize included: the call returns.
C30_ChunkTextTerminates ==
    <>(ckPc = "done")

====
